---- MODULE Spec2Model ----
(***************************************************************************)
(* pdf2audiobook: the checkpointed, concurrent chapter pipeline.           *)
(*                                                                         *)
(* Modelled sources:                                                       *)
(*   checkpoint.py          Checkpoint (mark, is_done, save,               *)
(*                          load_or_create, _hash_file)                    *)
(*   streaming.py           StreamingPipeline (run, _process_chapter)      *)
(*   synth/synthesizer.py   synthesize_one_chapter, _synth_one_chunk,      *)
(*                          _get_worker_count                              *)
(*   synth/stitcher.py      stitch_chapter                                 *)
(*   clean/cleaner.py       clean_one_chapter (and its _token_lock)        *)
(*   chunk/chunker.py       chunk_one_chapter (and its _nlp_lock)          *)
(*   pipeline.py            run_pipeline (re-invocation of the engine)     *)
(*   webapp.py              _run_job (parse, summary, pipeline)            *)
(*   parse/__init__.py      parse_pdf                                      *)
(*   parse/pymupdf_parser.py  PyMuPDFParser.parse                          *)
(*   summary.py             generate_and_inject_summary and its helpers    *)
(*   models.py              Chapter, ChapterChunks                         *)
(*                                                                         *)
(* Granularity.  A pool thread is a process with a program counter.  One   *)
(* step is one file-system operation, one lock acquisition or release      *)
(* together with the thread-local statements around it, or the start or    *)
(* the end of a call into a collaborator (cleaner, segmenter, TTS engine). *)
(* Path.write_text is taken as one step.                                   *)
(* _run_job runs in a single thread up to and including the insertion of  *)
(* the summary; there one step is one rename, one moved checkpoint entry,  *)
(* or one stage of one chapter of the run that follows.                    *)
(***************************************************************************)
EXTENDS Integers, Sequences, FiniteSets, TLC

\* ------------------------------------------------------------------ bounds

\* Number of chapters the parser produced for the source.
NumChapters == 2
\* Largest number of chunks the segmenter produces for one chapter.
MaxChunks == 2
\* Largest value of config.synth.parallel_workers explored (1 = sequential).
MaxSynthWorkers == 2
\* Number of invocations of the engine against the same output directory.
MaxRuns == 2

\* StreamingPipeline.__init__: max_concurrent_chapters: int = 2
MaxConcurrent == 2

\* Mutant of Workers: a pool with one thread more than max_workers.
Workers_OneMore == 1..(MaxConcurrent + 1)

Workers == 1..MaxConcurrent
Units == 0..(NumChapters - 1)
ChunkIdx == 0..(MaxChunks - 1)
\* Chunk indices of a chapter with up to MaxChunks chunks, or with one chunk
\* more than the chunk pool has threads.
AnyChunkIdx == 0..(IF MaxChunks > MaxSynthWorkers THEN MaxChunks - 1 ELSE MaxSynthWorkers)

\* Python's None, where the other values are strings.
None == "None"
\* No thread (of a lock holder), no chapter (of an idle thread), no path.
NoThread == 0
NoChapter == 0 - 1
NoPath == << >>

\* ------------------------------------------------------------- checkpoint

\* checkpoint.py: STAGES = ("parsed", "cleaned", "chunked", "synthesized")
STAGES == <<"parsed", "cleaned", "chunked", "synthesized">>

StageSet == {STAGES[k] : k \in 1..Len(STAGES)}

\* The three stage functions of _process_chapter, in the order of the code.
StageFns == <<"clean", "chunk", "synth">>

\* The flag each stage function's completion is recorded under.
FlagOf(fn) ==
  CASE fn = "clean" -> "cleaned"
    [] fn = "chunk" -> "chunked"
    [] fn = "synth" -> "synthesized"

\* str(chapter_index): the decimal numeral of a small non-negative integer.
Digits == <<"0", "1", "2", "3", "4", "5", "6", "7", "8", "9">>

Str(i) == IF i < 10 THEN Digits[i + 1] ELSE Digits[(i \div 10) + 1] \o Digits[(i % 10) + 1]

\* ChapterStatus(): the dataclass with its four fields at their defaults.
ChapterStatus == [s \in StageSet |-> FALSE]

\* setattr(status, stage, True): sets the attribute, creating it when the
\* name is not a field of the dataclass.
SetAttr(status, stage) ==
  [a \in (DOMAIN status) \cup {stage} |-> IF a = stage THEN TRUE ELSE status[a]]

\* asdict(status): the dataclass fields only.
AsDict(status) == [s \in StageSet |-> status[s]]

\* A Python value: a bool, or an object that is not a bool.
Bool(b) == <<"bool", b>>
Object(name) == <<"object", name>>

\* bool(v), as "if not ..." takes it: an object without __bool__ and __len__
\* is true.
Truthy(v) == IF v[1] = "bool" THEN v[2] ELSE TRUE

\* Attributes every ChapterStatus object has besides its four fields, from
\* its class and from the dataclass decorator (two of them).
ClassAttrs == {"__class__", "__dataclass_fields__"}

\* getattr(status, name, default): an instance attribute, else an attribute
\* of the class, else the default.
GetAttr(status, name, default) ==
  IF name \in DOMAIN status THEN Bool(status[name])
  ELSE IF name \in ClassAttrs THEN Object(name)
  ELSE default

\* Checkpoint.is_done: the value returned.
IsDoneValue(cp, chapter_index, stage) ==
  LET key == Str(chapter_index) IN
    IF key \notin DOMAIN cp.chapters THEN Bool(FALSE)
    ELSE GetAttr(cp.chapters[key], stage, Bool(FALSE))

\* Checkpoint.is_done as the callers use it, under "if" and "if not".
IsDone(cp, chapter_index, stage) == Truthy(IsDoneValue(cp, chapter_index, stage))

\* Mutant of MarkInMemory: the record is replaced by a new ChapterStatus
\* whether or not the key is in the map.
MarkInMemory_Reset(cp, chapter_index, stage) ==
  LET key == Str(chapter_index) IN
    [cp EXCEPT !.chapters =
       [k \in (DOMAIN cp.chapters) \cup {key} |->
          IF k = key THEN SetAttr(ChapterStatus, stage) ELSE cp.chapters[k]]]

\* Checkpoint.mark, lines 36-39: the in-memory update made under the lock.
MarkInMemory(cp, chapter_index, stage) ==
  LET key == Str(chapter_index)
      old == IF key \in DOMAIN cp.chapters THEN cp.chapters[key] ELSE ChapterStatus
  IN [cp EXCEPT !.chapters =
        [k \in (DOMAIN cp.chapters) \cup {key} |->
           IF k = key THEN SetAttr(old, stage) ELSE cp.chapters[k]]]

\* Mutant of SaveData: the chapters map is left out of the document.
SaveData_NoChapters(cp) ==
  [pdf_path |-> cp.pdf_path,
   pdf_hash |-> cp.pdf_hash,
   parser_used |-> cp.parser_used,
   total_chapters |-> cp.total_chapters,
   chapters |-> << >>]

\* Checkpoint.save, lines 51-57: the document built from the object.
SaveData(cp) ==
  [pdf_path |-> cp.pdf_path,
   pdf_hash |-> cp.pdf_hash,
   parser_used |-> cp.parser_used,
   total_chapters |-> cp.total_chapters,
   chapters |-> [k \in DOMAIN cp.chapters |-> AsDict(cp.chapters[k])]]

\* summary.py, lines 44 and 70: the title that marks the summary chapter.
SummaryTitle == "Executive Summary"

\* A source file: the first megabyte, what follows it, its first heading,
\* and the identity of the content of its first chapter (the contents of
\* its chapters are numbered from there).
PdfA == [path |-> "a.pdf", head |-> "h1", tail |-> "t1", first_title |-> "Chapter", base |-> 0]

\* A source that has the first megabyte of PdfA and differs after it.
PdfA2 == [path |-> "a2.pdf", head |-> "h1", tail |-> "t3", first_title |-> "Chapter", base |-> 10]

\* A source that differs from PdfA within the first megabyte.
PdfB == [path |-> "b.pdf", head |-> "h3", tail |-> "t1", first_title |-> "Chapter", base |-> 20]

\* The sources the engine is invoked on against one output directory.
Sources == {PdfA, PdfA2, PdfB}

\* A source whose own first heading reads "Executive Summary".
PdfS == [path |-> "s.pdf", head |-> "h2", tail |-> "t2", first_title |-> SummaryTitle, base |-> 0]

\* The title the parser gives the first chapter of a source.
FirstTitle(p) == p.first_title

\* Mutant of HashFile: a digest of the whole file.
HashFile_Whole(pdf) == <<"sha256", pdf.head, pdf.tail>>

\* _hash_file: a digest of the first megabyte only.
HashFile(pdf) == <<"sha256", pdf.head>>

\* Checkpoint(pdf_path=..., pdf_hash=...): the fresh object of line 82.
FreshCheckpoint(pdf) ==
  [pdf_path |-> pdf.path,
   pdf_hash |-> HashFile(pdf),
   parser_used |-> "",
   total_chapters |-> 0,
   chapters |-> << >>]

\* Mutant of LoadOrCreate: the persisted document is never reused.
LoadOrCreate_Fresh(file, pdf) == FreshCheckpoint(pdf)

\* Checkpoint.load_or_create: file is the content of the checkpoint file,
\* {} when checkpoint_path.exists() is false.
LoadOrCreate(file, pdf) ==
  IF \E doc \in file : doc.pdf_hash = HashFile(pdf)
  THEN LET doc == CHOOSE d \in file : TRUE IN
       [pdf_path |-> pdf.path,
        pdf_hash |-> HashFile(pdf),
        parser_used |-> doc.parser_used,
        total_chapters |-> doc.total_chapters,
        chapters |-> doc.chapters]
  ELSE FreshCheckpoint(pdf)

\* The checkpoint file holds a document whose stored fingerprint is that of
\* source p.
Matches(file, p) == file # {} /\ (CHOOSE d \in file : TRUE).pdf_hash = HashFile(p)

\* The chapters map of the checkpoint file, empty when there is no file.
PersistedChapters(file) ==
  IF file = {} THEN << >> ELSE (CHOOSE d \in file : TRUE).chapters

\* ------------------------------------------------------------------ state

VARIABLES
  pdf,           \* the source file given to the engine
  chapters,      \* the chapter list handed to StreamingPipeline (ch.index, ch.title)
  nchunks,       \* chunks the segmenter produces for each chapter of the source
  synth_workers, \* _get_worker_count(config)
  cp,            \* the Checkpoint object shared by the pool threads
  cp_lock,       \* holder of Checkpoint._lock
  disk_cp,       \* the content of the checkpoint file: {} when there is no file, else {document}
  files,         \* the paths of the artifacts on storage
  content,       \* what each artifact holds: the chapter content it was made from, and
                 \* the index and title fields embedded in a JSON document
  phase,         \* "running" while run() is inside the pool, "returned" after it
  runs,          \* invocations of the engine so far
  queue,         \* chapter indices submitted to the pool and not yet taken
  pc,            \* position of each pool thread in _process_chapter
  cur,           \* ch_idx of the chapter a pool thread is processing
  stg,           \* the stage function a pool thread is at
  data,          \* the document a thread has built in save() and not yet written ({}: none)
  res,           \* the ChapterResult a thread is filling in
  synth_lock,    \* holder of StreamingPipeline._synth_lock
  nlp_lock,      \* holder of chunker._nlp_lock
  token_lock,    \* holder of cleaner._token_lock
  items,         \* work_items of the synthesize_one_chapter call of a thread
  todo,          \* work items not yet started
  inflight,      \* work items inside engine.synthesize
  errs,          \* synth_errors
  results,       \* StreamingPipeline._results
  invoked,       \* this run: <<chapter, stage function>> pairs whose function was called
  raised,        \* this run: <<chapter, stage function>> pairs whose function raised
  persisted0,    \* the chapters map of the persisted document when this run began
  killed,        \* this run follows a run that was killed
  marked,        \* <<chapter, stage>> pairs for which mark() has returned
  io_failed,     \* this run: <<chapter, stage>> pairs whose mark() raised on the write
  job,           \* position of the caller: "run_pipeline", or a step of webapp._run_job
  summary_text,  \* generate_and_inject_summary: summary_text
  old_count,     \* generate_and_inject_summary: old_count
  renames,       \* _shift_chapter_files: the <<src, dst>> pairs still to process, in loop order
  shift_keys,    \* _shift_checkpoint_entries: the indices still to process, in loop order
  position,      \* StreamingPipeline.run as seen from _run_job: chapters processed so far
  run_stage,     \* and the stage function the chapter at hand is at
  pre,           \* storage, checkpoint and chapter list when generate_and_inject_summary was called
  injected,      \* summary chapters generate_and_inject_summary has put in front so far
  failed_pre,    \* the run in which generate_and_inject_summary last raised before a rename,
                 \* and the state it had been called on ({}: it has not)
  mismatch       \* the last load_or_create of run_pipeline found a checkpoint file whose
                 \* pdf_hash is not that of the source, and returned a fresh checkpoint

inputVars == <<pdf, chapters, nchunks, synth_workers>>
webVars == <<job, summary_text, old_count, renames, shift_keys, position, run_stage, pre,
             injected>>
cpVars == <<cp, cp_lock, disk_cp>>
threadVars == <<queue, pc, cur, stg, data, res>>
synthVars == <<synth_lock, items, todo, inflight, errs>>
ghostVars == <<invoked, raised, persisted0, killed, marked, io_failed, failed_pre, mismatch>>

vars == <<inputVars, webVars, cpVars, files, content, phase, runs, threadVars, nlp_lock, token_lock, synthVars,
          results, ghostVars>>

\* f"chapter_{ch_idx:03d}": the index zero-padded to three digits.
Pad3(i) == IF i < 10 THEN "00" \o Str(i) ELSE IF i < 100 THEN "0" \o Str(i) ELSE Str(i)

\* output_dir / "cleaned" / f"chapter_{ch_idx:03d}.txt" and its siblings.
ParsedPath(i) == <<"parsed", "chapter_" \o Pad3(i) \o ".json">>
ParsedMdPath(i) == <<"parsed", "chapter_" \o Pad3(i) \o ".md">>
CleanedPath(i) == <<"cleaned", "chapter_" \o Pad3(i) \o ".txt">>
ChunkPath(i) == <<"chunks", "chapter_" \o Pad3(i) \o ".json">>
AudioPath(i) == <<"audio", "chapter_" \o Pad3(i) \o ".mp3">>
AudioDir(i) == <<"audio", "chapter_" \o Pad3(i)>>
\* audio_dir / f"chapter_{ch_idx:03d}" / f"chunk_{i:04d}.wav"
WavPath(i, j) == <<"audio", "chapter_" \o Pad3(i), "chunk_0" \o Pad3(j) \o ".wav">>

\* What an artifact holds: the chapter content (the sections of the source,
\* or a summary text) it was made from, and, for a JSON document, the index
\* and the title written into it.
Doc(sections, index, title) == [sections |-> sections, index |-> index, title |-> title]

\* Chapter.save (markdown), Chapter.save_json (asdict: index, title, sections).
MdDoc(ch) == Doc(ch.sections, NoChapter, None)
JsonDoc(ch) == Doc(ch.sections, ch.index, ch.title)

\* The Chapter object with index i in the list given to the pipeline.
ChapterOf(i) == chapters[CHOOSE k \in 1..Len(chapters) : chapters[k].index = i]

\* The chapters the parser builds from a source: index = position.
ParsedChapters(p) ==
  [k \in 1..NumChapters |->
     [index |-> k - 1, title |-> IF k = 1 THEN FirstTitle(p) ELSE "Chapter",
      sections |-> p.base + k - 1]]

\* ChapterResult(index=ch_idx)
ChapterResult(i) ==
  [index |-> i, cleaned_path |-> NoPath, chunk_path |-> NoPath, audio_path |-> NoPath,
   error |-> None]

\* parse_pdf on a fresh checkpoint: every chapter saved and marked "parsed",
\* parser_used and total_chapters set, the checkpoint saved.
ParsedCheckpoint(p) ==
  [FreshCheckpoint(p) EXCEPT
     !.parser_used = "pymupdf",
     !.total_chapters = NumChapters,
     !.chapters = [k \in {Str(i) : i \in Units} |-> SetAttr(ChapterStatus, "parsed")]]

\* The state of a StreamingPipeline right after __init__, before run().
NewPipeline ==
  /\ cp_lock = NoThread
  /\ synth_lock = NoThread
  /\ queue = [k \in 1..Len(chapters) |-> chapters[k].index]
  /\ pc = [w \in Workers |-> "idle"]
  /\ cur = [w \in Workers |-> NoChapter]
  /\ stg = [w \in Workers |-> None]
  /\ data = [w \in Workers |-> {}]
  /\ res = [w \in Workers |-> ChapterResult(NoChapter)]
  /\ items = [w \in Workers |-> {}]
  /\ todo = [w \in Workers |-> {}]
  /\ inflight = [w \in Workers |-> {}]
  /\ errs = [w \in Workers |-> 0]
  /\ results = << >>
  /\ invoked = {}
  /\ raised = {}
  /\ io_failed = {}

Init ==
  /\ pdf = PdfA
  /\ chapters = ParsedChapters(PdfA)
  /\ nchunks \in [Units -> 0..MaxChunks]
  /\ synth_workers \in 1..MaxSynthWorkers
  /\ cp = ParsedCheckpoint(PdfA)
  /\ disk_cp = {SaveData(cp)}
  /\ files = {ParsedPath(i) : i \in Units} \cup {ParsedMdPath(i) : i \in Units}
  /\ content = [p \in files |->
                  LET ch == ChapterOf(CHOOSE i \in Units : p \in {ParsedPath(i), ParsedMdPath(i)})
                  IN IF p = ParsedPath(ch.index) THEN JsonDoc(ch) ELSE MdDoc(ch)]
  /\ job = "run_pipeline"
  /\ summary_text = ""
  /\ old_count = 0
  /\ renames = << >>
  /\ shift_keys = << >>
  /\ position = 0
  /\ run_stage = StageFns[1]
  /\ pre = {}
  /\ injected = 0
  /\ phase = "running"
  /\ runs = 1
  /\ nlp_lock = NoThread
  /\ token_lock = NoThread
  /\ persisted0 = PersistedChapters(disk_cp)
  /\ killed = FALSE
  /\ failed_pre = {}
  /\ mismatch = FALSE
  /\ marked = {}
  /\ NewPipeline

\* ----------------------------------------------------- StreamingPipeline

\* Mutant of NextFn: synthesis placed before segmentation.
NextFn_Reordered(fn) ==
  CASE fn = "clean" -> "synth"
    [] fn = "synth" -> "chunk"
    [] fn = "chunk" -> None

\* The stage function after fn in _process_chapter, None after the last.
NextFn(fn) ==
  CASE fn = "clean" -> "chunk"
    [] fn = "chunk" -> "synth"
    [] fn = "synth" -> None

\* The path _process_chapter stores in the result for a stage, returned by
\* the stage function or rebuilt from ch_idx when the stage is skipped.
StagePath(fn, i) ==
  CASE fn = "clean" -> CleanedPath(i)
    [] fn = "chunk" -> ChunkPath(i)
    [] fn = "synth" -> AudioPath(i)

SetPath(r, fn, i) ==
  CASE fn = "clean" -> [r EXCEPT !.cleaned_path = StagePath(fn, i)]
    [] fn = "chunk" -> [r EXCEPT !.chunk_path = StagePath(fn, i)]
    [] fn = "synth" -> [r EXCEPT !.audio_path = StagePath(fn, i)]

\* A pool thread takes the next submitted chapter: _process_chapter begins.
\* Idle pool threads are interchangeable; the lowest-numbered one takes it.
Take(w) ==
  /\ phase = "running"
  /\ pc[w] = "idle"
  /\ \A v \in Workers : pc[v] = "idle" => w <= v
  /\ queue # << >>
  /\ cur' = [cur EXCEPT ![w] = Head(queue)]
  /\ queue' = Tail(queue)
  /\ res' = [res EXCEPT ![w] = ChapterResult(Head(queue))]
  /\ stg' = [stg EXCEPT ![w] = StageFns[1]]
  /\ pc' = [pc EXCEPT ![w] = "check"]
  /\ UNCHANGED <<inputVars, webVars, cpVars, files, content, phase, runs, data, nlp_lock, token_lock, synthVars,
                 results, ghostVars>>

\* Mutant of Complete: results stored in completion order, not by index.
Complete_ByOrder(w, r) ==
  /\ results' = (Cardinality(DOMAIN results) :> r) @@ results
  /\ pc' = [pc EXCEPT ![w] = "idle"]
  /\ cur' = [cur EXCEPT ![w] = NoChapter]
  /\ stg' = [stg EXCEPT ![w] = None]
  /\ res' = [res EXCEPT ![w] = ChapterResult(NoChapter)]

\* run(), lines 81-89: the future of thread w completes and the main thread
\* stores what it holds under futures[future].  A returned result is stored
\* as it is; an exception becomes ChapterResult(index=ch_idx, error=str(e)).
Complete(w, r) ==
  /\ results' = (cur[w] :> r) @@ results
  /\ pc' = [pc EXCEPT ![w] = "idle"]
  /\ cur' = [cur EXCEPT ![w] = NoChapter]
  /\ stg' = [stg EXCEPT ![w] = None]
  /\ res' = [res EXCEPT ![w] = ChapterResult(NoChapter)]

\* Mutant of Raise: the except clause stores a result without the error.
Raise_NoError(w, msg) == Complete(w, ChapterResult(cur[w]))

Raise(w, msg) == Complete(w, [ChapterResult(cur[w]) EXCEPT !.error = msg])

\* The thread has the path of stage stg[w] in hand: the result field is set
\* and the thread goes on to the next stage, or returns the result.
Advance(w) ==
  LET r == SetPath(res[w], stg[w], cur[w]) IN
    IF NextFn(stg[w]) = None
    THEN Complete(w, r)
    ELSE /\ res' = [res EXCEPT ![w] = r]
         /\ stg' = [stg EXCEPT ![w] = NextFn(stg[w])]
         /\ pc' = [pc EXCEPT ![w] = "check"]
         /\ UNCHANGED <<cur, results>>

\* "if not self._checkpoint.is_done(ch_idx, <flag>)", lines 102, 117, 131:
\* the stage is done, the path is rebuilt and the stage function not called.
SkipStage(w) ==
  /\ pc[w] = "check"
  /\ IsDone(cp, cur[w], FlagOf(stg[w]))
  /\ Advance(w)
  /\ UNCHANGED <<inputVars, webVars, cpVars, files, content, phase, runs, queue, data, nlp_lock, token_lock,
                 synthVars, ghostVars>>

\* Mutant of EnterStage: the stage function is called whatever is_done says.
EnterStage_Always(w) ==
  /\ pc[w] = "check"
  /\ pc' = [pc EXCEPT ![w] = IF stg[w] = "synth" THEN "synth_wait" ELSE stg[w]]
  /\ invoked' = IF stg[w] = "synth" THEN invoked ELSE invoked \cup {<<cur[w], stg[w]>>}
  /\ UNCHANGED <<inputVars, webVars, cpVars, files, content, phase, runs, queue, cur, stg, data, res,
                 nlp_lock, token_lock, synthVars, results, raised, persisted0, killed, failed_pre, mismatch, marked,
                 io_failed>>

\* The stage is not done: clean_one_chapter or chunk_one_chapter is called,
\* or the thread goes for the synthesis lock.
EnterStage(w) ==
  /\ pc[w] = "check"
  /\ ~IsDone(cp, cur[w], FlagOf(stg[w]))
  /\ pc' = [pc EXCEPT ![w] = IF stg[w] = "synth" THEN "synth_wait" ELSE stg[w]]
  /\ invoked' = IF stg[w] = "synth" THEN invoked ELSE invoked \cup {<<cur[w], stg[w]>>}
  /\ UNCHANGED <<inputVars, webVars, cpVars, files, content, phase, runs, queue, cur, stg, data, res,
                 nlp_lock, token_lock, synthVars, results, raised, persisted0, killed, failed_pre, mismatch, marked, io_failed>>

\* _llm_clean, lines 251-261: litellm.completion has returned and the
\* thread takes _token_lock to count the call.
CleanTokenAcquire(w) ==
  /\ pc[w] = "clean"
  /\ token_lock = NoThread
  /\ token_lock' = w
  /\ pc' = [pc EXCEPT ![w] = "clean_token"]
  /\ UNCHANGED <<inputVars, webVars, cpVars, files, content, phase, runs, queue, cur, stg, data, res,
                 nlp_lock, synthVars, results, ghostVars>>

\* _llm_clean, lines 261-267: the counters are updated, _token_lock is
\* released and the cleaned text returned.
CleanTokenRelease(w) ==
  /\ pc[w] = "clean_token"
  /\ token_lock' = NoThread
  /\ pc' = [pc EXCEPT ![w] = "clean_write"]
  /\ UNCHANGED <<inputVars, webVars, cpVars, files, content, phase, runs, queue, cur, stg, data, res,
                 nlp_lock, synthVars, results, ghostVars>>

\* Mutant of CleanReturn: the clean stage made to wait for _synth_lock.
CleanReturn_UnderSynthLock(w) ==
  /\ pc[w] \in {"clean", "clean_write"}
  /\ synth_lock = NoThread
  /\ files' = files \cup {CleanedPath(cur[w])}
  /\ content' = (CleanedPath(cur[w]) :> MdDoc(ChapterOf(cur[w]))) @@ content
  /\ pc' = [pc EXCEPT ![w] = "mark"]
  /\ UNCHANGED <<inputVars, webVars, cpVars, phase, runs, queue, cur, stg, data, res, nlp_lock, token_lock,
                 synthVars, results, ghostVars>>

\* clean_one_chapter returns: the text cleaned by the model, or by
\* _regex_clean without a call of the model, is on storage.
CleanReturn(w) ==
  /\ pc[w] \in {"clean", "clean_write"}
  /\ files' = files \cup {CleanedPath(cur[w])}
  /\ content' = (CleanedPath(cur[w]) :> MdDoc(ChapterOf(cur[w]))) @@ content
  /\ pc' = [pc EXCEPT ![w] = "mark"]
  /\ UNCHANGED <<inputVars, webVars, cpVars, phase, runs, queue, cur, stg, data, res, nlp_lock, token_lock,
                 synthVars, results, ghostVars>>

\* clean_one_chapter raises: the exception leaves _process_chapter.
CleanRaise(w) ==
  /\ pc[w] \in {"clean", "clean_write"}
  /\ raised' = raised \cup {<<cur[w], "clean">>}
  /\ Raise(w, "clean failed")
  /\ UNCHANGED <<inputVars, webVars, cpVars, files, content, phase, runs, queue, data, nlp_lock, token_lock,
                 synthVars, invoked, persisted0, killed, failed_pre, mismatch, marked, io_failed>>

\* Mutant of ChunkNlpAcquire: _chunk_text called without "with _nlp_lock".
ChunkNlpAcquire_NoLock(w) ==
  /\ pc[w] = "chunk"
  /\ CleanedPath(cur[w]) \in files
  /\ nlp_lock' = w
  /\ pc' = [pc EXCEPT ![w] = "chunk_nlp"]
  /\ UNCHANGED <<inputVars, webVars, cpVars, files, content, phase, runs, queue, cur, stg, data, res,
                 token_lock, synthVars, results, ghostVars>>

\* chunk_one_chapter, lines 96-101: the model is fetched under _nlp_lock,
\* the cleaned text is read, and _nlp_lock is taken again for _chunk_text.
ChunkNlpAcquire(w) ==
  /\ pc[w] = "chunk"
  /\ CleanedPath(cur[w]) \in files
  /\ nlp_lock = NoThread
  /\ nlp_lock' = w
  /\ pc' = [pc EXCEPT ![w] = "chunk_nlp"]
  /\ UNCHANGED <<inputVars, webVars, cpVars, files, content, phase, runs, queue, cur, stg, data, res,
                 token_lock, synthVars, results, ghostVars>>

\* chunk_one_chapter, lines 102-110: _chunk_text returns, _nlp_lock is
\* released and the chunks document is saved.
ChunkReturn(w) ==
  /\ pc[w] = "chunk_nlp"
  /\ nlp_lock' = NoThread
  /\ files' = files \cup {ChunkPath(cur[w])}
  /\ content' = (ChunkPath(cur[w]) :>
                   Doc(content[CleanedPath(cur[w])].sections, cur[w], ChapterOf(cur[w]).title))
                @@ content
  /\ pc' = [pc EXCEPT ![w] = "mark"]
  /\ UNCHANGED <<inputVars, webVars, cpVars, phase, runs, queue, cur, stg, data, res,
                 token_lock, synthVars, results, ghostVars>>

\* Mutant of ChunkRaise: the exception is swallowed in _process_chapter,
\* which goes on to mark the stage.
ChunkRaise_Swallowed(w) ==
  /\ pc[w] \in {"chunk", "chunk_nlp"}
  /\ nlp_lock' = IF nlp_lock = w THEN NoThread ELSE nlp_lock
  /\ raised' = raised \cup {<<cur[w], "chunk">>}
  /\ pc' = [pc EXCEPT ![w] = "mark"]
  /\ UNCHANGED <<inputVars, webVars, cpVars, files, content, phase, runs, queue, data, cur, stg, res,
                 results, token_lock, synthVars, invoked, persisted0, killed, failed_pre, mismatch, marked,
                 io_failed>>

\* chunk_one_chapter raises (the model cannot be loaded, the cleaned text
\* cannot be read, _chunk_text fails): a with-block releases _nlp_lock.
ChunkRaise(w) ==
  /\ pc[w] \in {"chunk", "chunk_nlp"}
  /\ nlp_lock' = IF nlp_lock = w THEN NoThread ELSE nlp_lock
  /\ raised' = raised \cup {<<cur[w], "chunk">>}
  /\ Raise(w, "chunk failed")
  /\ UNCHANGED <<inputVars, webVars, cpVars, files, content, phase, runs, queue, data,
                 token_lock, synthVars, invoked, persisted0, killed, failed_pre, mismatch, marked, io_failed>>

\* ------------------------------------------------------- Checkpoint.mark

\* Mutant of MarkBegin: mark without "with self._lock".
MarkBegin_NoLock(w) ==
  /\ pc[w] = "mark"
  /\ cp' = MarkInMemory(cp, cur[w], FlagOf(stg[w]))
  /\ data' = [data EXCEPT ![w] = {SaveData(cp')}]
  /\ pc' = [pc EXCEPT ![w] = "save"]
  /\ UNCHANGED <<inputVars, webVars, cp_lock, disk_cp, files, content, phase, runs, queue, cur, stg, res,
                 nlp_lock, token_lock, synthVars, results, ghostVars>>

\* mark, lines 35-39, and save, lines 51-57: the lock is taken, the flag is
\* set in the shared object and the document to write is built from it.
MarkBegin(w) ==
  /\ pc[w] = "mark"
  /\ cp_lock = NoThread
  /\ cp_lock' = w
  /\ cp' = MarkInMemory(cp, cur[w], FlagOf(stg[w]))
  /\ data' = [data EXCEPT ![w] = {SaveData(cp')}]
  /\ pc' = [pc EXCEPT ![w] = "save"]
  /\ UNCHANGED <<inputVars, webVars, disk_cp, files, content, phase, runs, queue, cur, stg, res, nlp_lock, token_lock,
                 synthVars, results, ghostVars>>

\* save, lines 58-59: the document is written, the lock released and mark
\* returns to _process_chapter.
MarkWrite(w) ==
  /\ pc[w] = "save"
  /\ disk_cp' = data[w]
  /\ cp_lock' = IF cp_lock = w THEN NoThread ELSE cp_lock
  /\ data' = [data EXCEPT ![w] = {}]
  /\ marked' = marked \cup {<<cur[w], FlagOf(stg[w])>>}
  /\ Advance(w)
  /\ UNCHANGED <<inputVars, webVars, cp, files, content, phase, runs, queue, nlp_lock, token_lock, synthVars,
                 invoked, raised, persisted0, killed, failed_pre, mismatch, io_failed>>

\* save, line 59: write_text raises OSError.  The with-block releases the
\* lock and the exception leaves mark and _process_chapter.
MarkWriteFail(w) ==
  /\ pc[w] = "save"
  /\ cp_lock' = IF cp_lock = w THEN NoThread ELSE cp_lock
  /\ data' = [data EXCEPT ![w] = {}]
  /\ io_failed' = io_failed \cup {<<cur[w], FlagOf(stg[w])>>}
  /\ Raise(w, "OSError")
  /\ UNCHANGED <<inputVars, webVars, cp, disk_cp, files, content, phase, runs, queue, nlp_lock, token_lock, synthVars,
                 invoked, raised, persisted0, killed, failed_pre, mismatch, marked>>

\* ------------------------------------------------ synthesize_one_chapter

\* Chunks the segmenter produces for a content: nchunks for a chapter of
\* the first source, one for a summary text or a chapter of another source.
NChunks(sections) == IF sections \in DOMAIN nchunks THEN nchunks[sections] ELSE 1

\* Chunks of the document ChapterChunks.from_json(chunk_path) reads, on a
\* storage holding c.
ChunksIn(i, c) == 0..(NChunks(c[ChunkPath(i)].sections) - 1)

ChunksOf(i) == ChunksIn(i, content)

\* Mutant of WorkItems: every chunk is a work item, its wav existing or not.
WorkItems_All(i, fs) == ChunksOf(i)

\* synthesize_one_chapter, lines 95-100: the chunks without a wav file.
WorkItems(i, fs) == {j \in ChunksOf(i) : WavPath(i, j) \notin fs}

\* Mutant of SynthThreads: a pool without max_workers.
SynthThreads_Unbounded == MaxSynthWorkers + 1

\* Threads the chunk calls of one chapter run on: the calling thread when
\* workers <= 1 (line 105), a pool of `workers` threads otherwise (line 113).
SynthThreads == IF synth_workers <= 1 THEN 1 ELSE synth_workers

\* Mutant of Min: the work items taken from the far end of the list.
Min_Last(S) == CHOOSE x \in S : \A y \in S : x >= y

Min(S) == CHOOSE x \in S : \A y \in S : x <= y

\* Mutant of SynthAcquire: synthesize_one_chapter called without
\* "with self._synth_lock".
SynthAcquire_NoLock(w) ==
  /\ pc[w] = "synth_wait"
  /\ invoked' = invoked \cup {<<cur[w], "synth">>}
  /\ LET work == IF ChunkPath(cur[w]) \in files THEN WorkItems(cur[w], files) ELSE {}
     IN /\ items' = [items EXCEPT ![w] = work]
        /\ todo' = [todo EXCEPT ![w] = work]
  /\ inflight' = [inflight EXCEPT ![w] = {}]
  /\ errs' = [errs EXCEPT ![w] = 0]
  /\ pc' = [pc EXCEPT ![w] = "synth"]
  /\ UNCHANGED <<inputVars, webVars, cpVars, files, content, phase, runs, queue, cur, stg, data, res,
                 nlp_lock, token_lock, synth_lock, results, raised, persisted0, killed, failed_pre, mismatch, marked,
                 io_failed>>

\* _process_chapter, lines 135-136, and synthesize_one_chapter, lines
\* 83-100: the thread takes _synth_lock, calls synthesize_one_chapter, which
\* reads the chunks document and lists the work items.
SynthAcquire(w) ==
  /\ pc[w] = "synth_wait"
  /\ synth_lock = NoThread
  /\ synth_lock' = w
  /\ invoked' = invoked \cup {<<cur[w], "synth">>}
  /\ LET work == IF ChunkPath(cur[w]) \in files THEN WorkItems(cur[w], files) ELSE {}
     IN /\ items' = [items EXCEPT ![w] = work]
        /\ todo' = [todo EXCEPT ![w] = work]
  /\ inflight' = [inflight EXCEPT ![w] = {}]
  /\ errs' = [errs EXCEPT ![w] = 0]
  /\ pc' = [pc EXCEPT ![w] = "synth"]
  /\ UNCHANGED <<inputVars, webVars, cpVars, files, content, phase, runs, queue, cur, stg, data, res,
                 nlp_lock, token_lock, results, raised, persisted0, killed, failed_pre, mismatch, marked, io_failed>>

\* _synth_one_chunk, line 65: engine.synthesize is entered for the next work
\* item, on the calling thread or on a free thread of the chunk pool.
SynthCallStart(w) ==
  /\ pc[w] = "synth"
  /\ todo[w] # {}
  /\ Cardinality(inflight[w]) < SynthThreads
  /\ inflight' = [inflight EXCEPT ![w] = @ \cup {Min(todo[w])}]
  /\ todo' = [todo EXCEPT ![w] = @ \ {Min(todo[w])}]
  /\ UNCHANGED <<inputVars, webVars, cpVars, files, content, phase, runs, threadVars, nlp_lock, token_lock,
                 synth_lock, items, errs, results, ghostVars>>

\* _synth_one_chunk, line 66: engine.synthesize returns, the wav is written.
SynthCallOk(w, j) ==
  /\ pc[w] = "synth"
  /\ j \in inflight[w]
  /\ files' = files \cup {WavPath(cur[w], j)}
  /\ content' = (WavPath(cur[w], j) :> Doc(content[ChunkPath(cur[w])].sections, NoChapter, None))
                @@ content
  /\ inflight' = [inflight EXCEPT ![w] = @ \ {j}]
  /\ UNCHANGED <<inputVars, webVars, cpVars, phase, runs, threadVars, nlp_lock, token_lock,
                 synth_lock, items, todo, errs, results, ghostVars>>

\* _synth_one_chunk, lines 67-68: engine.synthesize raises, the error is
\* returned and counted (lines 108-109, 121-122).
SynthCallErr(w, j) ==
  /\ pc[w] = "synth"
  /\ j \in inflight[w]
  /\ errs' = [errs EXCEPT ![w] = @ + 1]
  /\ inflight' = [inflight EXCEPT ![w] = @ \ {j}]
  /\ UNCHANGED <<inputVars, webVars, cpVars, files, content, phase, runs, threadVars, nlp_lock, token_lock,
                 synth_lock, items, todo, results, ghostVars>>

\* stitch_chapter: the chapter mp3 is exported unless no chunk has a wav.
Stitch(i, fs) ==
  IF \E j \in ChunksOf(i) : WavPath(i, j) \in fs THEN fs \cup {AudioPath(i)} ELSE fs

\* stitch_chapter, lines 35-53: the mp3 is made of the wav files that exist,
\* in chunk order; the content its audio begins with is recorded.
StitchDoc(i, fs, c) ==
  LET have == {j \in ChunksIn(i, c) : WavPath(i, j) \in fs} IN
    IF have = {} THEN c
    ELSE (AudioPath(i) :> c[WavPath(i, CHOOSE j \in have : \A k \in have : j <= k)]) @@ c

\* Mutant of SynthFails: no check that some chunk succeeded (as synthesize_all).
SynthFails_Never(w) == ChunkPath(cur[w]) \notin files

\* Mutant of SynthFails: one failed chunk fails the chapter.
SynthFails_Any(w) == ChunkPath(cur[w]) \notin files \/ errs[w] > 0

\* Mutant of SynthFails: the test of line 126 without "work_items and".
SynthFails_Empty(w) ==
  \/ ChunkPath(cur[w]) \notin files
  \/ errs[w] = Cardinality(items[w])

\* synthesize_one_chapter raises: from_json on a missing document (line 87)
\* or every work item failed (lines 126-129).
SynthFails(w) ==
  \/ ChunkPath(cur[w]) \notin files
  \/ items[w] # {} /\ errs[w] = Cardinality(items[w])

\* All chunk calls of the chapter are over.
SynthCallsOver(w) == pc[w] = "synth" /\ todo[w] = {} /\ inflight[w] = {}

\* synthesize_one_chapter, lines 90-91 and 131-133, and _process_chapter,
\* line 141: the chapter has no chunks and the mp3 path is returned, or the
\* chunks are stitched; _synth_lock is released.
SynthReturn(w) ==
  /\ SynthCallsOver(w)
  /\ ~SynthFails(w)
  /\ files' = IF ChunksOf(cur[w]) = {} THEN files ELSE Stitch(cur[w], files)
  /\ content' = IF ChunksOf(cur[w]) = {} THEN content ELSE StitchDoc(cur[w], files, content)
  /\ synth_lock' = IF synth_lock = w THEN NoThread ELSE synth_lock
  /\ pc' = [pc EXCEPT ![w] = "mark"]
  /\ UNCHANGED <<inputVars, webVars, cpVars, phase, runs, queue, cur, stg, data, res, nlp_lock, token_lock,
                 items, todo, inflight, errs, results, ghostVars>>

\* Mutant of SynthRaise: the exception leaves without releasing _synth_lock
\* (acquire() and release() in place of the with-block).
SynthRaise_KeepLock(w) ==
  /\ SynthCallsOver(w)
  /\ SynthFails(w)
  /\ raised' = raised \cup {<<cur[w], "synth">>}
  /\ Raise(w, "synth failed")
  /\ UNCHANGED <<inputVars, webVars, cpVars, files, content, phase, runs, queue, data, nlp_lock, token_lock,
                 synth_lock, items, todo, inflight, errs, invoked, persisted0, killed, failed_pre, mismatch, marked,
                 io_failed>>

\* synthesize_one_chapter raises: the with-block releases _synth_lock and
\* the exception leaves _process_chapter.
SynthRaise(w) ==
  /\ SynthCallsOver(w)
  /\ SynthFails(w)
  /\ synth_lock' = IF synth_lock = w THEN NoThread ELSE synth_lock
  /\ raised' = raised \cup {<<cur[w], "synth">>}
  /\ Raise(w, "synth failed")
  /\ UNCHANGED <<inputVars, webVars, cpVars, files, content, phase, runs, queue, data, nlp_lock, token_lock,
                 items, todo, inflight, errs, invoked, persisted0, killed, failed_pre, mismatch, marked, io_failed>>

\* ------------------------------------------------------------ run, re-run

\* run(), lines 76-92: every future is completed and collected, the pool is
\* shut down and the results are returned.
RunReturn ==
  /\ phase = "running"
  /\ queue = << >>
  /\ \A w \in Workers : pc[w] = "idle"
  /\ phase' = "returned"
  /\ UNCHANGED <<inputVars, webVars, cpVars, files, content, runs, threadVars, nlp_lock, token_lock, synthVars,
                 results, ghostVars>>

\* run_pipeline, lines 25-72, in a new process on the same output directory
\* and source: the checkpoint is loaded, every chapter is found parsed and
\* loaded from storage, a new StreamingPipeline is built and run.
Restart ==
  /\ runs < MaxRuns
  /\ runs' = runs + 1
  /\ cp' = LoadOrCreate(disk_cp, pdf)
  /\ persisted0' = PersistedChapters(disk_cp)
  /\ killed' = (phase = "running")
  /\ failed_pre' = failed_pre
  /\ mismatch' = mismatch
  /\ phase' = "running"
  /\ cp_lock' = NoThread
  /\ synth_lock' = NoThread
  /\ nlp_lock' = NoThread
  /\ token_lock' = NoThread
  /\ queue' = [k \in 1..Len(chapters) |-> chapters[k].index]
  /\ pc' = [w \in Workers |-> "idle"]
  /\ cur' = [w \in Workers |-> NoChapter]
  /\ stg' = [w \in Workers |-> None]
  /\ data' = [w \in Workers |-> {}]
  /\ res' = [w \in Workers |-> ChapterResult(NoChapter)]
  /\ items' = [w \in Workers |-> {}]
  /\ todo' = [w \in Workers |-> {}]
  /\ inflight' = [w \in Workers |-> {}]
  /\ errs' = [w \in Workers |-> 0]
  /\ results' = << >>
  /\ invoked' = {}
  /\ raised' = {}
  /\ io_failed' = {}
  /\ UNCHANGED <<inputVars, webVars, disk_cp, files, content, marked>>

\* The engine is invoked again after a run that returned.
ReInvoke == phase = "returned" /\ Restart

\* The process is killed while run() is inside the pool, and the engine is
\* invoked again.
Interrupt == phase = "running" /\ Restart

\* ---------------------------------------------------------------- summary

\* The other variables of a StreamingPipeline and of its pool threads.
poolVars == <<cp_lock, phase, threadVars, nlp_lock, token_lock, synthVars, results, ghostVars>>

\* The content of the summary generated in run r, apart from every chapter
\* of the source.
SummaryText(r) == NumChapters + r - 1

\* mark applied for each index of a sequence in turn.
RECURSIVE MarkEach(_, _, _)
MarkEach(c, idxs, stage) ==
  IF idxs = << >> THEN c ELSE MarkEach(MarkInMemory(c, Head(idxs), stage), Tail(idxs), stage)

\* What generate_and_inject_summary is called on.
Snapshot(fs, c, ck, chs) == [files |-> fs, content |-> c, cp |-> ck, chapters |-> chs]

\* parse_pdf: the parser is chosen and recorded, the chapters are built from
\* the source; each chapter not marked parsed is saved (markdown and JSON)
\* and marked; total_chapters is set and the checkpoint saved.  _run_job
\* then calls generate_and_inject_summary on the list.
ParsePdf ==
  /\ job = "parse"
  /\ LET chs == ParsedChapters(pdf)
         new == {k \in 1..Len(chs) : ~IsDone(cp, chs[k].index, "parsed")}
         idxs == [k \in 1..Len(chs) |-> chs[k].index]
         todo_idxs == SelectSeq(idxs, LAMBDA i : ~IsDone(cp, i, "parsed"))
     IN /\ chapters' = chs
        /\ files' = files \cup {ParsedMdPath(chs[k].index) : k \in new}
                          \cup {ParsedPath(chs[k].index) : k \in new}
        /\ content' = [p \in files' |->
                         IF \E k \in new : p = ParsedMdPath(chs[k].index)
                         THEN MdDoc(chs[CHOOSE k \in new : p = ParsedMdPath(chs[k].index)])
                         ELSE IF \E k \in new : p = ParsedPath(chs[k].index)
                         THEN JsonDoc(chs[CHOOSE k \in new : p = ParsedPath(chs[k].index)])
                         ELSE content[p]]
        /\ cp' = [MarkEach([cp EXCEPT !.parser_used = "pymupdf"], todo_idxs, "parsed")
                    EXCEPT !.total_chapters = Len(chs)]
  /\ disk_cp' = {SaveData(cp')}
  /\ pre' = {Snapshot(files', content', cp', chapters')}
  /\ job' = "summary"
  /\ UNCHANGED <<pdf, nchunks, synth_workers, summary_text, old_count, renames, shift_keys,
                 position, run_stage, injected, runs, poolVars>>

\* Mutant of AlreadyInjected: no resume check.
AlreadyInjected_Never(chs) == FALSE

\* generate_and_inject_summary, line 44: the resume check.
AlreadyInjected(chs) == chs # << >> /\ chs[1].title = SummaryTitle

\* Lines 44-46: the first chapter carries the summary title; the list is
\* returned as it is.
SummarySkip ==
  /\ job = "summary"
  /\ AlreadyInjected(chapters)
  /\ job' = "run"
  /\ UNCHANGED <<inputVars, summary_text, old_count, renames, shift_keys, position, run_stage, pre,
                 injected, cpVars, files, content, runs, poolVars>>

\* Lines 50-53: the generated text is empty after strip(); the list is
\* returned as it is.
SummaryEmpty ==
  /\ job = "summary"
  /\ ~AlreadyInjected(chapters)
  /\ summary_text' = ""
  /\ job' = "run"
  /\ UNCHANGED <<inputVars, old_count, renames, shift_keys, position, run_stage, pre,
                 injected, cpVars, files, content, runs, poolVars>>

\* Mutant of ShiftOrder: the indices taken in ascending order.
ShiftOrder_Ascending(count) == [k \in 1..count |-> k - 1]

\* range(count - 1, -1, -1), lines 168, 178 and 188.
ShiftOrder(count) == [k \in 1..count |-> count - k]

\* _shift_chapter_files: the <<src, dst>> of index i in each directory.
ParsedPairs(i) ==
  << <<ParsedMdPath(i), ParsedMdPath(i + 1)>>, <<ParsedPath(i), ParsedPath(i + 1)>> >>
CleanedPairs(i) == << <<CleanedPath(i), CleanedPath(i + 1)>> >>
ChunkPairs(i) == << <<ChunkPath(i), ChunkPath(i + 1)>> >>
AudioPairs(i) ==
  << <<AudioPath(i), AudioPath(i + 1)>>, <<AudioDir(i), AudioDir(i + 1)>> >>

RECURSIVE Flatten(_)
Flatten(ss) == IF ss = << >> THEN << >> ELSE Head(ss) \o Flatten(Tail(ss))

\* Mutant of ShiftPlan: the chunks directory is left out of dirs_and_exts.
ShiftPlan_NoChunks(count) ==
  LET order == ShiftOrder(count) IN
    Flatten([k \in 1..count |-> ParsedPairs(order[k])])
    \o Flatten([k \in 1..count |-> CleanedPairs(order[k])])
    \o Flatten([k \in 1..count |-> AudioPairs(order[k])])

\* _shift_chapter_files: every rename it attempts, in the order of its loops:
\* directory by directory, and in each directory index by index.
ShiftPlan(count) ==
  LET order == ShiftOrder(count) IN
    Flatten([k \in 1..count |-> ParsedPairs(order[k])])
    \o Flatten([k \in 1..count |-> CleanedPairs(order[k])])
    \o Flatten([k \in 1..count |-> ChunkPairs(order[k])])
    \o Flatten([k \in 1..count |-> AudioPairs(order[k])])

\* Lines 48-56: a summary text is generated and is not empty; the shift
\* begins.
ShiftBegin ==
  /\ job = "summary"
  /\ ~AlreadyInjected(chapters)
  /\ summary_text' = "summary"
  /\ old_count' = Len(chapters)
  /\ renames' = ShiftPlan(Len(chapters))
  /\ shift_keys' = ShiftOrder(Len(chapters))
  /\ job' = "shift_files"
  /\ UNCHANGED <<inputVars, position, run_stage, pre, injected, cpVars, files, content, runs, poolVars>>

\* The paths inside directory d.
Under(d, fs) == {p \in fs : Len(p) = 3 /\ <<p[1], p[2]>> = d}

\* path.exists(): a file, or a directory that holds a file (an empty chunk
\* directory is not tracked).
Exists(p, fs) == p \in fs \/ Under(p, fs) # {}

\* src.rename(dst): the name of path p afterwards.
Moved(src, dst, p) ==
  IF p = src THEN dst
  ELSE IF Len(p) = 3 /\ <<p[1], p[2]>> = src THEN <<dst[1], dst[2], p[3]>>
  ELSE p

\* src.rename(dst) raises: a directory cannot replace a directory that is
\* not empty.
RenameFails(src, dst, fs) == Under(src, fs) # {} /\ Under(dst, fs) # {}

\* _shift_chapter_files, lines 170-173 and 180-183: the next src is renamed
\* to dst when it exists; a file replaces a file of that name.
ShiftRename ==
  /\ job = "shift_files"
  /\ renames # << >>
  /\ LET src == Head(renames)[1]
         dst == Head(renames)[2]
     IN /\ ~RenameFails(src, dst, files)
        /\ files' = {Moved(src, dst, p) : p \in files}
        /\ content' = [q \in files' |->
                         LET from == {p \in files : p # q /\ Moved(src, dst, p) = q}
                         IN IF from # {} THEN content[CHOOSE p \in from : TRUE] ELSE content[q]]
  /\ renames' = Tail(renames)
  /\ job' = IF Tail(renames) = << >> THEN "shift_entries" ELSE "shift_files"
  /\ UNCHANGED <<inputVars, summary_text, old_count, shift_keys, position, run_stage, pre, injected,
                 cpVars, runs, poolVars>>

\* The rename raises OSError, which leaves generate_and_inject_summary and
\* is caught in _run_job (lines 412-415): the job ends in error.
ShiftRenameFail ==
  /\ job = "shift_files"
  /\ renames # << >>
  /\ RenameFails(Head(renames)[1], Head(renames)[2], files)
  /\ job' = "error"
  /\ UNCHANGED <<inputVars, summary_text, old_count, renames, shift_keys, position, run_stage, pre,
                 injected, cpVars, files, content, runs, poolVars>>

\* Mutant of SummaryRaise: the exception comes after the first rename that
\* moved a file.
SummaryRaise_AfterRename ==
  /\ job = "shift_files"
  /\ pre # {}
  /\ files # (CHOOSE x \in pre : TRUE).files
  /\ Len(renames) + 2 >= Len(ShiftPlan(old_count))
  /\ failed_pre' = {[run |-> runs, at |-> CHOOSE x \in pre : TRUE]}
  /\ job' = "error"
  /\ UNCHANGED <<inputVars, summary_text, old_count, renames, shift_keys, position, run_stage, pre,
                 injected, cpVars, files, content, runs, cp_lock, phase, threadVars, nlp_lock,
                 token_lock, synthVars, results, invoked, raised, persisted0, killed, marked,
                 io_failed, mismatch>>

\* generate_and_inject_summary raises before a rename has moved anything:
\* in _generate_summary_text outside its try block (lines 100-102), or
\* OSError from the first src.rename(dst) (line 173).  Nothing has been
\* written; the exception is caught in _run_job and the job ends in error.
SummaryRaise ==
  /\ \/ job = "summary" /\ ~AlreadyInjected(chapters)
     \/ job = "shift_files"
  /\ pre # {}
  /\ files = (CHOOSE x \in pre : TRUE).files
  /\ content = (CHOOSE x \in pre : TRUE).content
  /\ failed_pre' = {[run |-> runs, at |-> CHOOSE x \in pre : TRUE]}
  /\ job' = "error"
  /\ UNCHANGED <<inputVars, summary_text, old_count, renames, shift_keys, position, run_stage, pre,
                 injected, cpVars, files, content, runs, cp_lock, phase, threadVars, nlp_lock,
                 token_lock, synthVars, results, invoked, raised, persisted0, killed, marked,
                 io_failed, mismatch>>

\* Mutant of ShiftCheckpointEntry: the entry is copied, not popped.
ShiftCheckpointEntry_Copy(c, i) ==
  IF Str(i) \in DOMAIN c.chapters
  THEN [c EXCEPT !.chapters =
          [k \in (DOMAIN c.chapters) \cup {Str(i + 1)} |->
             IF k = Str(i + 1) THEN c.chapters[Str(i)] ELSE c.chapters[k]]]
  ELSE c

\* _shift_checkpoint_entries, lines 189-192, for one index.
ShiftCheckpointEntry(c, i) ==
  IF Str(i) \in DOMAIN c.chapters
  THEN [c EXCEPT !.chapters =
          [k \in ((DOMAIN c.chapters) \ {Str(i)}) \cup {Str(i + 1)} |->
             IF k = Str(i + 1) THEN c.chapters[Str(i)] ELSE c.chapters[k]]]
  ELSE c

\* _shift_checkpoint_entries: the entry of the next index is moved, in
\* memory.
ShiftEntry ==
  /\ job = "shift_entries"
  /\ shift_keys # << >>
  /\ cp' = ShiftCheckpointEntry(cp, Head(shift_keys))
  /\ shift_keys' = Tail(shift_keys)
  /\ job' = IF Tail(shift_keys) = << >> THEN "inject" ELSE "shift_entries"
  /\ UNCHANGED <<inputVars, summary_text, old_count, renames, position, run_stage, pre, injected,
                 cp_lock, disk_cp, files, content, runs, poolVars>>

\* _update_parsed_json_indices: data["index"] = i in chapter_<i>.json for i
\* in 1..old_count.
UpdateParsedJsonIndices(c, count) ==
  [p \in DOMAIN c |->
     IF \E i \in 1..count : p = ParsedPath(i)
     THEN [c[p] EXCEPT !.index = CHOOSE i \in 1..count : p = ParsedPath(i)]
     ELSE c[p]]

\* Mutant of InjectSummary: index 0 is marked parsed and not cleaned.
InjectSummary_ParsedOnly ==
  /\ job = "inject"
  /\ LET summary_ch == [index |-> 0, title |-> SummaryTitle, sections |-> SummaryText(runs)]
         c1 == UpdateParsedJsonIndices(content, old_count)
     IN /\ chapters' = <<summary_ch>> \o
                         [k \in 1..Len(chapters) |-> [chapters[k] EXCEPT !.index = @ + 1]]
        /\ files' = files \cup {ParsedMdPath(0), ParsedPath(0), CleanedPath(0)}
        /\ content' = [p \in files' |->
                         IF p = ParsedPath(0) THEN JsonDoc(summary_ch)
                         ELSE IF p \in {ParsedMdPath(0), CleanedPath(0)} THEN MdDoc(summary_ch)
                         ELSE c1[p]]
  /\ cp' = [MarkInMemory(cp, 0, "parsed")
              EXCEPT !.total_chapters = old_count + 1]
  /\ disk_cp' = {SaveData(cp')}
  /\ injected' = injected + 1
  /\ job' = "run"
  /\ UNCHANGED <<pdf, nchunks, synth_workers, summary_text, old_count, renames, shift_keys,
                 position, run_stage, pre, cp_lock, runs, poolVars>>

\* Mutant of InjectSummary: index 0 is marked cleaned and not parsed.
InjectSummary_CleanedOnly ==
  /\ job = "inject"
  /\ LET summary_ch == [index |-> 0, title |-> SummaryTitle, sections |-> SummaryText(runs)]
         c1 == UpdateParsedJsonIndices(content, old_count)
     IN /\ chapters' = <<summary_ch>> \o
                         [k \in 1..Len(chapters) |-> [chapters[k] EXCEPT !.index = @ + 1]]
        /\ files' = files \cup {ParsedMdPath(0), ParsedPath(0), CleanedPath(0)}
        /\ content' = [p \in files' |->
                         IF p = ParsedPath(0) THEN JsonDoc(summary_ch)
                         ELSE IF p \in {ParsedMdPath(0), CleanedPath(0)} THEN MdDoc(summary_ch)
                         ELSE c1[p]]
  /\ cp' = [MarkInMemory(cp, 0, "cleaned")
              EXCEPT !.total_chapters = old_count + 1]
  /\ disk_cp' = {SaveData(cp')}
  /\ injected' = injected + 1
  /\ job' = "run"
  /\ UNCHANGED <<pdf, nchunks, synth_workers, summary_text, old_count, renames, shift_keys,
                 position, run_stage, pre, cp_lock, runs, poolVars>>

\* Mutant of InjectSummary: total_chapters is set after the last save, the
\* one mark(0, "cleaned") makes.
InjectSummary_NoFinalSave ==
  /\ job = "inject"
  /\ LET summary_ch == [index |-> 0, title |-> SummaryTitle, sections |-> SummaryText(runs)]
         c1 == UpdateParsedJsonIndices(content, old_count)
     IN /\ chapters' = <<summary_ch>> \o
                         [k \in 1..Len(chapters) |-> [chapters[k] EXCEPT !.index = @ + 1]]
        /\ files' = files \cup {ParsedMdPath(0), ParsedPath(0), CleanedPath(0)}
        /\ content' = [p \in files' |->
                         IF p = ParsedPath(0) THEN JsonDoc(summary_ch)
                         ELSE IF p \in {ParsedMdPath(0), CleanedPath(0)} THEN MdDoc(summary_ch)
                         ELSE c1[p]]
  /\ cp' = [MarkInMemory(MarkInMemory(cp, 0, "parsed"), 0, "cleaned")
              EXCEPT !.total_chapters = old_count + 1]
  /\ disk_cp' = {SaveData(MarkInMemory(MarkInMemory(cp, 0, "parsed"), 0, "cleaned"))}
  /\ injected' = injected + 1
  /\ job' = "run"
  /\ UNCHANGED <<pdf, nchunks, synth_workers, summary_text, old_count, renames, shift_keys,
                 position, run_stage, pre, cp_lock, runs, poolVars>>

\* generate_and_inject_summary, lines 60-89: the Chapter objects are
\* reindexed, the index in the parsed JSON documents rewritten, the summary
\* chapter saved (markdown, JSON and cleaned text), index 0 marked parsed and
\* cleaned, total_chapters set, the checkpoint saved and the new list
\* returned.
InjectSummary ==
  /\ job = "inject"
  /\ LET summary_ch == [index |-> 0, title |-> SummaryTitle, sections |-> SummaryText(runs)]
         c1 == UpdateParsedJsonIndices(content, old_count)
     IN /\ chapters' = <<summary_ch>> \o
                         [k \in 1..Len(chapters) |-> [chapters[k] EXCEPT !.index = @ + 1]]
        /\ files' = files \cup {ParsedMdPath(0), ParsedPath(0), CleanedPath(0)}
        /\ content' = [p \in files' |->
                         IF p = ParsedPath(0) THEN JsonDoc(summary_ch)
                         ELSE IF p \in {ParsedMdPath(0), CleanedPath(0)} THEN MdDoc(summary_ch)
                         ELSE c1[p]]
  /\ cp' = [MarkInMemory(MarkInMemory(cp, 0, "parsed"), 0, "cleaned")
              EXCEPT !.total_chapters = old_count + 1]
  /\ disk_cp' = {SaveData(cp')}
  /\ injected' = injected + 1
  /\ job' = "run"
  /\ UNCHANGED <<pdf, nchunks, synth_workers, summary_text, old_count, renames, shift_keys,
                 position, run_stage, pre, cp_lock, runs, poolVars>>

\* StreamingPipeline.run as _run_job sees it: the chapters of the list one
\* at a time, each taken by _process_chapter through clean, chunk and
\* synthesis.  The chapter at hand and its index:
RunCh == chapters[position + 1]
RunIdx == RunCh.index

\* The next stage of the chapter, or the next chapter after the last stage.
RunAdvance ==
  IF NextFn(run_stage) = None
  THEN position' = position + 1 /\ run_stage' = StageFns[1]
  ELSE position' = position /\ run_stage' = NextFn(run_stage)

\* A stage function raised: the exception leaves _process_chapter, run()
\* records the error and the next chapter is taken.
RunAbandon == position' = position + 1 /\ run_stage' = StageFns[1]

\* is_done is true for the stage: the stage function is not called.
RunSkip ==
  /\ job = "run"
  /\ position < Len(chapters)
  /\ IsDone(cp, RunIdx, FlagOf(run_stage))
  /\ RunAdvance
  /\ UNCHANGED <<inputVars, job, summary_text, old_count, renames, shift_keys, pre, injected,
                 cpVars, files, content, runs, poolVars>>

\* clean_one_chapter writes the cleaned text of the Chapter object; the
\* stage is marked.
RunClean ==
  /\ job = "run"
  /\ position < Len(chapters)
  /\ run_stage = "clean"
  /\ ~IsDone(cp, RunIdx, "cleaned")
  /\ files' = files \cup {CleanedPath(RunIdx)}
  /\ content' = (CleanedPath(RunIdx) :> MdDoc(RunCh)) @@ content
  /\ cp' = MarkInMemory(cp, RunIdx, "cleaned")
  /\ disk_cp' = {SaveData(cp')}
  /\ RunAdvance
  /\ UNCHANGED <<inputVars, job, summary_text, old_count, renames, shift_keys, pre, injected,
                 cp_lock, runs, poolVars>>

\* chunk_one_chapter reads the cleaned text at cleaned_path and saves the
\* chunks document with chapter_index = ch_idx; the stage is marked.
RunChunk ==
  /\ job = "run"
  /\ position < Len(chapters)
  /\ run_stage = "chunk"
  /\ ~IsDone(cp, RunIdx, "chunked")
  /\ CleanedPath(RunIdx) \in files
  /\ files' = files \cup {ChunkPath(RunIdx)}
  /\ content' = (ChunkPath(RunIdx) :>
                   Doc(content[CleanedPath(RunIdx)].sections, RunIdx, RunCh.title)) @@ content
  /\ cp' = MarkInMemory(cp, RunIdx, "chunked")
  /\ disk_cp' = {SaveData(cp')}
  /\ RunAdvance
  /\ UNCHANGED <<inputVars, job, summary_text, old_count, renames, shift_keys, pre, injected,
                 cp_lock, runs, poolVars>>

\* synthesize_one_chapter: the calls for the work items in `ok` succeed, the
\* others fail.  When every work item failed it raises; otherwise the wav
\* files are stitched and the stage is marked.
RunSynth(ok) ==
  /\ job = "run"
  /\ position < Len(chapters)
  /\ run_stage = "synth"
  /\ ~IsDone(cp, RunIdx, "synthesized")
  /\ ChunkPath(RunIdx) \in files
  /\ LET work == WorkItems(RunIdx, files)
         wavs == {WavPath(RunIdx, j) : j \in ok}
         wav_doc == Doc(content[ChunkPath(RunIdx)].sections, NoChapter, None)
         with_wavs == [p \in files \cup wavs |-> IF p \in files THEN content[p] ELSE wav_doc]
     IN /\ ok \subseteq work
        /\ IF work # {} /\ ok = {}
           THEN /\ RunAbandon
                /\ UNCHANGED <<files, content, cp, disk_cp>>
           ELSE /\ content' = IF ChunksOf(RunIdx) = {} THEN with_wavs
                              ELSE StitchDoc(RunIdx, files \cup wavs, with_wavs)
                /\ files' = DOMAIN content'
                /\ cp' = MarkInMemory(cp, RunIdx, "synthesized")
                /\ disk_cp' = {SaveData(cp')}
                /\ RunAdvance
  /\ UNCHANGED <<inputVars, job, summary_text, old_count, renames, shift_keys, pre, injected,
                 cp_lock, runs, poolVars>>

\* The stage function raises: the cleaner or the segmenter fails, or the
\* document the stage reads is not on storage.
RunRaise ==
  /\ job = "run"
  /\ position < Len(chapters)
  /\ ~IsDone(cp, RunIdx, FlagOf(run_stage))
  /\ run_stage = "synth" => ChunkPath(RunIdx) \notin files
  /\ RunAbandon
  /\ UNCHANGED <<inputVars, job, summary_text, old_count, renames, shift_keys, pre, injected,
                 cpVars, files, content, runs, poolVars>>

\* run() has gone through the list; _run_job completes.
RunDone ==
  /\ job = "run"
  /\ position = Len(chapters)
  /\ job' = "complete"
  /\ UNCHANGED <<inputVars, summary_text, old_count, renames, shift_keys, position, run_stage, pre,
                 injected, cpVars, files, content, runs, poolVars>>

\* The steps of _run_job, lines 369-381, are run once more on the same
\* output directory and source.
JobAgain ==
  /\ job \in {"complete", "error"}
  /\ runs < MaxRuns
  /\ runs' = runs + 1
  /\ cp' = LoadOrCreate(disk_cp, pdf)
  /\ chapters' = << >>
  /\ job' = "parse"
  /\ summary_text' = ""
  /\ old_count' = 0
  /\ renames' = << >>
  /\ shift_keys' = << >>
  /\ position' = 0
  /\ run_stage' = StageFns[1]
  /\ pre' = {}
  /\ UNCHANGED <<pdf, nchunks, synth_workers, injected, cp_lock, disk_cp, files, content,
                 poolVars>>

\* _run_job on a new output directory.
InitWeb ==
  /\ pdf \in {PdfA, PdfS}
  /\ chapters = << >>
  /\ nchunks \in [Units -> 0..MaxChunks]
  /\ synth_workers = 1
  /\ cp = LoadOrCreate({}, pdf)
  /\ disk_cp = {}
  /\ files = {}
  /\ content = << >>
  /\ phase = "created"
  /\ runs = 1
  /\ nlp_lock = NoThread
  /\ token_lock = NoThread
  /\ persisted0 = << >>
  /\ killed = FALSE
  /\ failed_pre = {}
  /\ mismatch = FALSE
  /\ marked = {}
  /\ NewPipeline
  /\ job = "parse"
  /\ summary_text = ""
  /\ old_count = 0
  /\ renames = << >>
  /\ shift_keys = << >>
  /\ position = 0
  /\ run_stage = StageFns[1]
  /\ pre = {}
  /\ injected = 0

NextWeb ==
  \/ ParsePdf
  \/ SummarySkip
  \/ SummaryEmpty
  \/ ShiftBegin
  \/ ShiftRename
  \/ ShiftRenameFail
  \/ ShiftEntry
  \/ InjectSummary
  \/ RunSkip
  \/ RunClean
  \/ RunChunk
  \/ \E ok \in SUBSET ChunkIdx : RunSynth(ok)
  \/ RunRaise
  \/ RunDone
  \/ JobAgain

\* The web job: structuring, summary injection and the chapter pipeline,
\* run again on the same output directory.
SpecWeb == InitWeb /\ [][NextWeb]_vars

\* The process is killed while pipeline.run() is between two stages, and
\* the job is started again on the same output directory and source.
RunInterrupted ==
  /\ job = "run"
  /\ runs < MaxRuns
  /\ runs' = runs + 1
  /\ cp' = LoadOrCreate(disk_cp, pdf)
  /\ chapters' = << >>
  /\ job' = "parse"
  /\ summary_text' = ""
  /\ old_count' = 0
  /\ renames' = << >>
  /\ shift_keys' = << >>
  /\ position' = 0
  /\ run_stage' = StageFns[1]
  /\ pre' = {}
  /\ UNCHANGED <<pdf, nchunks, synth_workers, injected, cp_lock, disk_cp, files, content,
                 poolVars>>

\* The web job interrupted and run again, where an output directory on
\* which generate_and_inject_summary has failed in the middle of the shift
\* is not used again: every later state follows completed invocations only.
JobAgainCompleted == job = "complete" /\ JobAgain

NextReindexed ==
  \/ ParsePdf
  \/ SummarySkip
  \/ SummaryEmpty
  \/ ShiftBegin
  \/ ShiftRename
  \/ ShiftRenameFail
  \/ ShiftEntry
  \/ InjectSummary
  \/ RunSkip
  \/ RunClean
  \/ RunChunk
  \/ \E ok \in SUBSET ChunkIdx : RunSynth(ok)
  \/ RunRaise
  \/ RunDone
  \/ JobAgainCompleted
  \/ RunInterrupted

SpecReindexed == InitWeb /\ [][NextReindexed]_vars

\* The web job with a failure of generate_and_inject_summary before its
\* first rename, and the job run again afterwards.
NextRetry == NextWeb \/ SummaryRaise

SpecRetry == InitWeb /\ [][NextRetry]_vars

\* ---------------------------------------------------------- specification

Step(w) ==
  \/ Take(w)
  \/ SkipStage(w)
  \/ EnterStage(w)
  \/ CleanTokenAcquire(w)
  \/ CleanTokenRelease(w)
  \/ CleanReturn(w)
  \/ CleanRaise(w)
  \/ ChunkNlpAcquire(w)
  \/ ChunkReturn(w)
  \/ ChunkRaise(w)
  \/ MarkBegin(w)
  \/ MarkWrite(w)
  \/ SynthAcquire(w)
  \/ SynthCallStart(w)
  \/ \E j \in AnyChunkIdx : SynthCallOk(w, j) \/ SynthCallErr(w, j)
  \/ SynthReturn(w)
  \/ SynthRaise(w)

\* Runs to completion, re-invoked after each return; storage never fails.
Next == (\E w \in Workers : Step(w)) \/ RunReturn \/ ReInvoke

Spec == Init /\ [][Next]_vars

\* The same, and a run can be killed at any point.
NextResume == Next \/ Interrupt

SpecResume == Init /\ [][NextResume]_vars

\* The same as Spec, and a write of the checkpoint file can fail.
NextIO == Next \/ (\E w \in Workers : MarkWriteFail(w))

SpecIO == Init /\ [][NextIO]_vars

\* A source with one chapter more than the pool has threads, each chapter
\* of one chunk, parsed by parse_pdf on a fresh checkpoint; synthesis is
\* sequential.
PoolUnits == 0..MaxConcurrent

PoolChapters == [k \in 1..(MaxConcurrent + 1) |-> [index |-> k - 1, title |-> "Chapter", sections |-> k - 1]]

InitPool ==
  /\ pdf = PdfA
  /\ chapters = PoolChapters
  /\ nchunks = [i \in PoolUnits |-> 1]
  /\ synth_workers = 1
  /\ cp = [FreshCheckpoint(PdfA) EXCEPT
             !.parser_used = "pymupdf",
             !.total_chapters = Len(PoolChapters),
             !.chapters = [k \in {Str(i) : i \in PoolUnits} |-> SetAttr(ChapterStatus, "parsed")]]
  /\ disk_cp = {SaveData(cp)}
  /\ files = {ParsedPath(i) : i \in PoolUnits} \cup {ParsedMdPath(i) : i \in PoolUnits}
  /\ content = [p \in files |->
                  LET ch == ChapterOf(CHOOSE i \in PoolUnits : p \in {ParsedPath(i), ParsedMdPath(i)})
                  IN IF p = ParsedPath(ch.index) THEN JsonDoc(ch) ELSE MdDoc(ch)]
  /\ job = "run_pipeline"
  /\ summary_text = ""
  /\ old_count = 0
  /\ renames = << >>
  /\ shift_keys = << >>
  /\ position = 0
  /\ run_stage = StageFns[1]
  /\ pre = {}
  /\ injected = 0
  /\ phase = "running"
  /\ runs = 1
  /\ nlp_lock = NoThread
  /\ token_lock = NoThread
  /\ persisted0 = PersistedChapters(disk_cp)
  /\ killed = FALSE
  /\ failed_pre = {}
  /\ mismatch = FALSE
  /\ marked = {}
  /\ NewPipeline

\* The engine run on that source, re-invoked after each return.
SpecPool == InitPool /\ [][Next]_vars

\* Scheduling: a pool thread that can take a step eventually takes one (the
\* operating system runs every runnable thread, and every call into the
\* cleaner, the segmenter and the TTS engine returns or raises), and run()
\* returns once every future is collected.  Nothing is assumed about which
\* of the threads waiting for a lock gets it.
Fairness == (\A w \in Workers : WF_vars(Step(w))) /\ WF_vars(RunReturn)

\* The engine run on that source under this scheduling.
SpecLive == InitPool /\ [][Next]_vars /\ Fairness

\* A source whose chapters have one chunk more than the chunk pool has
\* threads, synthesized with the largest worker count.
InitDispatch ==
  /\ pdf = PdfA
  /\ chapters = ParsedChapters(PdfA)
  /\ nchunks = [i \in Units |-> MaxSynthWorkers + 1]
  /\ synth_workers = MaxSynthWorkers
  /\ cp = ParsedCheckpoint(PdfA)
  /\ disk_cp = {SaveData(cp)}
  /\ files = {ParsedPath(i) : i \in Units} \cup {ParsedMdPath(i) : i \in Units}
  /\ content = [p \in files |->
                  LET ch == ChapterOf(CHOOSE i \in Units : p \in {ParsedPath(i), ParsedMdPath(i)})
                  IN IF p = ParsedPath(ch.index) THEN JsonDoc(ch) ELSE MdDoc(ch)]
  /\ job = "run_pipeline"
  /\ summary_text = ""
  /\ old_count = 0
  /\ renames = << >>
  /\ shift_keys = << >>
  /\ position = 0
  /\ run_stage = StageFns[1]
  /\ pre = {}
  /\ injected = 0
  /\ phase = "running"
  /\ runs = 1
  /\ nlp_lock = NoThread
  /\ token_lock = NoThread
  /\ persisted0 = PersistedChapters(disk_cp)
  /\ killed = FALSE
  /\ failed_pre = {}
  /\ mismatch = FALSE
  /\ marked = {}
  /\ NewPipeline

\* The engine run on that source; a run can be killed at any point.
SpecDispatch == InitDispatch /\ [][NextResume]_vars

\* _load_parsed_chapters: for each index below total the chapter read from
\* its JSON document, or made from its markdown file when there is no JSON
\* document, or left out when there is neither.
LoadParsedChapters(total, fs, ct) ==
  LET have == SelectSeq([k \in 1..total |-> k - 1],
                        LAMBDA i : ParsedPath(i) \in fs \/ ParsedMdPath(i) \in fs)
  IN [n \in 1..Len(have) |->
        LET i == have[n] IN
          IF ParsedPath(i) \in fs
          THEN [index |-> ct[ParsedPath(i)].index, title |-> ct[ParsedPath(i)].title,
                sections |-> ct[ParsedPath(i)].sections]
          ELSE [index |-> i, title |-> "Chapter", sections |-> ct[ParsedMdPath(i)].sections]]

\* run_pipeline, lines 32-36: every chapter counted in the checkpoint is
\* marked parsed.
AllParsed(c) ==
  c.total_chapters > 0 /\ \A i \in 0..(c.total_chapters - 1) : IsDone(c, i, "parsed")

\* run_pipeline, lines 25-38 and 65-72, on source p against the output
\* directory: the checkpoint is loaded or created; the chapters are loaded
\* from storage when all are marked parsed, else parse_pdf builds them from
\* p, saves and marks those not marked parsed, sets parser_used and
\* total_chapters and saves the checkpoint; a StreamingPipeline is built
\* and run.
RunPipeline(p) ==
  /\ phase \in {"created", "returned"}
  /\ runs < MaxRuns
  /\ runs' = runs + 1
  /\ pdf' = p
  /\ LET c0 == LoadOrCreate(disk_cp, p) IN
       IF AllParsed(c0)
       THEN /\ chapters' = LoadParsedChapters(c0.total_chapters, files, content)
            /\ cp' = c0
            /\ UNCHANGED <<disk_cp, files, content>>
       ELSE LET chs == ParsedChapters(p)
                new == {k \in 1..Len(chs) : ~IsDone(c0, chs[k].index, "parsed")}
                idxs == [k \in 1..Len(chs) |-> chs[k].index]
                todo_idxs == SelectSeq(idxs, LAMBDA i : ~IsDone(c0, i, "parsed"))
            IN /\ chapters' = chs
               /\ files' = files \cup {ParsedMdPath(chs[k].index) : k \in new}
                                 \cup {ParsedPath(chs[k].index) : k \in new}
               /\ content' = [q \in files' |->
                                IF \E k \in new : q = ParsedMdPath(chs[k].index)
                                THEN MdDoc(chs[CHOOSE k \in new : q = ParsedMdPath(chs[k].index)])
                                ELSE IF \E k \in new : q = ParsedPath(chs[k].index)
                                THEN JsonDoc(chs[CHOOSE k \in new : q = ParsedPath(chs[k].index)])
                                ELSE content[q]]
               /\ cp' = [MarkEach([c0 EXCEPT !.parser_used = "pymupdf"], todo_idxs, "parsed")
                           EXCEPT !.total_chapters = Len(chs)]
               /\ disk_cp' = {SaveData(cp')}
  /\ persisted0' = PersistedChapters(disk_cp)
  /\ killed' = FALSE
  /\ failed_pre' = failed_pre
  /\ mismatch' = (disk_cp # {} /\ ~Matches(disk_cp, p))
  /\ phase' = "running"
  /\ cp_lock' = NoThread
  /\ synth_lock' = NoThread
  /\ nlp_lock' = NoThread
  /\ token_lock' = NoThread
  /\ queue' = [k \in 1..Len(chapters') |-> chapters'[k].index]
  /\ pc' = [w \in Workers |-> "idle"]
  /\ cur' = [w \in Workers |-> NoChapter]
  /\ stg' = [w \in Workers |-> None]
  /\ data' = [w \in Workers |-> {}]
  /\ res' = [w \in Workers |-> ChapterResult(NoChapter)]
  /\ items' = [w \in Workers |-> {}]
  /\ todo' = [w \in Workers |-> {}]
  /\ inflight' = [w \in Workers |-> {}]
  /\ errs' = [w \in Workers |-> 0]
  /\ results' = << >>
  /\ invoked' = {}
  /\ raised' = {}
  /\ io_failed' = {}
  /\ UNCHANGED <<nchunks, synth_workers, webVars, marked>>

\* An empty output directory, before the engine is invoked for the first
\* time: no checkpoint file, no artifact, no pipeline.  Each chapter has one
\* chunk and synthesis is sequential.
InitSource ==
  /\ pdf \in Sources
  /\ chapters = << >>
  /\ nchunks = [i \in Units |-> 1]
  /\ synth_workers = 1
  /\ cp = FreshCheckpoint(pdf)
  /\ disk_cp = {}
  /\ files = {}
  /\ content = << >>
  /\ job = "run_pipeline"
  /\ summary_text = ""
  /\ old_count = 0
  /\ renames = << >>
  /\ shift_keys = << >>
  /\ position = 0
  /\ run_stage = StageFns[1]
  /\ pre = {}
  /\ injected = 0
  /\ phase = "created"
  /\ runs = 0
  /\ nlp_lock = NoThread
  /\ token_lock = NoThread
  /\ persisted0 = << >>
  /\ killed = FALSE
  /\ failed_pre = {}
  /\ mismatch = FALSE
  /\ marked = {}
  /\ NewPipeline

\* The engine invoked, run to its return, and invoked again on any of the
\* sources against the same output directory.
NextSource == (\E w \in Workers : Step(w)) \/ RunReturn \/ (\E p \in Sources : RunPipeline(p))

SpecSource == InitSource /\ [][NextSource]_vars

\* ---------------------------------------------------------- synthesize_all

\* The thread that calls synthesize_all.
Caller == 1

\* synthesize_one_chapter called by _process_chapter (streaming.py, lines
\* 135-144) for chapter i on a storage with the files fs and the content c,
\* the engine calls of the work items in ok returning and the others
\* raising: the files it leaves, whether stitch_chapter was called, whether
\* it raised, and whether the chapter is marked synthesized after it.
OneChapter(i, fs, c, ok) ==
  LET chunks == ChunksIn(i, c)
      work == {j \in chunks : WavPath(i, j) \notin fs}
      wavs == fs \cup {WavPath(i, j) : j \in work \cap ok}
      fails == work # {} /\ work \cap ok = {}
      stitch == chunks # {} /\ ~fails
  IN [files |-> IF stitch /\ (\E j \in chunks : WavPath(i, j) \in wavs)
                THEN wavs \cup {AudioPath(i)} ELSE wavs,
      stitched |-> stitch,
      raised |-> fails,
      synthesized |-> ~fails]

\* The output directory when synthesize_all is called for the first time:
\* every chapter is parsed, cleaned and chunked, and there is no audio.
InitAll ==
  /\ pdf = PdfA
  /\ chapters = ParsedChapters(PdfA)
  /\ nchunks \in [Units -> 0..MaxChunks]
  /\ synth_workers \in 1..MaxSynthWorkers
  /\ cp = MarkEach(MarkEach(ParsedCheckpoint(PdfA), [k \in 1..NumChapters |-> k - 1], "cleaned"),
                   [k \in 1..NumChapters |-> k - 1], "chunked")
  /\ disk_cp = {SaveData(cp)}
  /\ files = UNION {{ParsedPath(i), ParsedMdPath(i), CleanedPath(i), ChunkPath(i)} : i \in Units}
  /\ content = [p \in files |->
                  LET ch == ChapterOf(CHOOSE i \in Units :
                                        p \in {ParsedPath(i), ParsedMdPath(i), CleanedPath(i),
                                               ChunkPath(i)})
                  IN IF p \in {ParsedPath(ch.index), ChunkPath(ch.index)} THEN JsonDoc(ch)
                     ELSE MdDoc(ch)]
  /\ job = "synthesize_all"
  /\ summary_text = ""
  /\ old_count = 0
  /\ renames = << >>
  /\ shift_keys = << >>
  /\ position = 0
  /\ run_stage = "synth"
  /\ pre = {}
  /\ injected = 0
  /\ phase = "created"
  /\ runs = 1
  /\ nlp_lock = NoThread
  /\ token_lock = NoThread
  /\ persisted0 = PersistedChapters(disk_cp)
  /\ killed = FALSE
  /\ failed_pre = {}
  /\ mismatch = FALSE
  /\ marked = {}
  /\ NewPipeline

\* synthesize_all, lines 154-182, for ch_idx = position: a chapter without
\* chunks is marked synthesized and left (161-163); a chapter marked
\* synthesized is left (165-167); for any other the work items are listed
\* (177-181).
AllChapter ==
  /\ job = "synthesize_all"
  /\ pc[Caller] = "idle"
  /\ position < NumChapters
  /\ IF ChunksOf(position) = {}
     THEN /\ cp' = MarkInMemory(cp, position, "synthesized")
          /\ disk_cp' = {SaveData(cp')}
          /\ position' = position + 1
          /\ UNCHANGED <<pc, cur, items, todo, inflight, errs>>
     ELSE IF IsDone(cp, position, "synthesized")
     THEN /\ position' = position + 1
          /\ UNCHANGED <<cp, disk_cp, pc, cur, items, todo, inflight, errs>>
     ELSE /\ pc' = [pc EXCEPT ![Caller] = "synth"]
          /\ cur' = [cur EXCEPT ![Caller] = position]
          /\ items' = [items EXCEPT ![Caller] = WorkItems(position, files)]
          /\ todo' = [todo EXCEPT ![Caller] = WorkItems(position, files)]
          /\ inflight' = [inflight EXCEPT ![Caller] = {}]
          /\ errs' = [errs EXCEPT ![Caller] = 0]
          /\ UNCHANGED <<cp, disk_cp, position>>
  /\ UNCHANGED <<inputVars, job, summary_text, old_count, renames, shift_keys, run_stage, pre,
                 injected, cp_lock, files, content, phase, runs, queue, stg, data, res, nlp_lock,
                 token_lock, synth_lock, results, ghostVars>>

\* synthesize_all, lines 216-223: the calls of the chapter are over, whatever
\* they returned; stitch_chapter is called and the chapter is marked
\* synthesized.
AllStitch ==
  /\ job = "synthesize_all"
  /\ SynthCallsOver(Caller)
  /\ files' = Stitch(cur[Caller], files)
  /\ content' = StitchDoc(cur[Caller], files, content)
  /\ cp' = MarkInMemory(cp, cur[Caller], "synthesized")
  /\ disk_cp' = {SaveData(cp')}
  /\ position' = position + 1
  /\ pc' = [pc EXCEPT ![Caller] = "idle"]
  /\ UNCHANGED <<inputVars, job, summary_text, old_count, renames, shift_keys, run_stage, pre,
                 injected, cp_lock, phase, runs, queue, cur, stg, data, res, nlp_lock, token_lock,
                 synthVars, results, ghostVars>>

\* synthesize_all, lines 225-241: the loop is over, the final file is made
\* and its path returned.
AllFinal ==
  /\ job = "synthesize_all"
  /\ pc[Caller] = "idle"
  /\ position = NumChapters
  /\ job' = "complete"
  /\ UNCHANGED <<inputVars, summary_text, old_count, renames, shift_keys, position, run_stage, pre,
                 injected, cpVars, files, content, phase, runs, poolVars>>

\* synthesize_all is called again on the same output directory, with the
\* checkpoint load_or_create builds from the file.
AllAgain ==
  /\ runs < MaxRuns
  /\ runs' = runs + 1
  /\ cp' = LoadOrCreate(disk_cp, pdf)
  /\ persisted0' = PersistedChapters(disk_cp)
  /\ killed' = (job = "synthesize_all")
  /\ job' = "synthesize_all"
  /\ position' = 0
  /\ pc' = [w \in Workers |-> "idle"]
  /\ cur' = [w \in Workers |-> NoChapter]
  /\ items' = [w \in Workers |-> {}]
  /\ todo' = [w \in Workers |-> {}]
  /\ inflight' = [w \in Workers |-> {}]
  /\ errs' = [w \in Workers |-> 0]
  /\ UNCHANGED <<inputVars, summary_text, old_count, renames, shift_keys, run_stage, pre, injected,
                 cp_lock, disk_cp, files, content, phase, queue, stg, data, res, nlp_lock,
                 token_lock, synth_lock, results, invoked, raised, marked, io_failed, failed_pre,
                 mismatch>>

\* The call after one that returned.
AllReinvoked == job = "complete" /\ AllAgain

\* The process is killed inside synthesize_all, and it is called again.
AllInterrupted == job = "synthesize_all" /\ AllAgain

\* synthesize_all on the chapters of one source, called again after it
\* returned or was killed.
NextAll ==
  \/ AllChapter
  \/ SynthCallStart(Caller)
  \/ \E j \in AnyChunkIdx : SynthCallOk(Caller, j) \/ SynthCallErr(Caller, j)
  \/ AllStitch
  \/ AllFinal
  \/ AllReinvoked
  \/ AllInterrupted

SpecAll == InitAll /\ [][NextAll]_vars

\* ------------------------------------------------------------------ claims

\* Threads inside the locked section of Checkpoint.mark.
InMark == {w \in Workers : pc[w] = "save"}

\* Threads inside synthesize_one_chapter.
InSynth == {w \in Workers : pc[w] = "synth"}

\* Calls of engine.synthesize on the shared engine that are executing.
EngineCalls ==
  {c \in Units \X ChunkIdx : \E w \in InSynth : cur[w] = c[1] /\ c[2] \in inflight[w]}

\* C1: once mark(i, s) has returned, is_done(i, s) is true on the checkpoint
\* in memory and on the checkpoint load_or_create builds from the same file
\* and source; and from every reachable checkpoint, for every chapter index
\* (one without a record included) and every stage, mark followed by save
\* and load_or_create gives a checkpoint on which is_done(i, s) is true.
C1_MarkThenIsDone ==
  /\ \A m \in marked :
       /\ IsDone(cp, m[1], m[2])
       /\ IsDone(LoadOrCreate(disk_cp, pdf), m[1], m[2])
  /\ \A i \in 0..NumChapters : \A s \in StageSet :
       /\ IsDone(MarkInMemory(cp, i, s), i, s)
       /\ IsDone(LoadOrCreate({SaveData(MarkInMemory(cp, i, s))}, pdf), i, s)

\* A mark made in the first run is seen by the second run, which was
\* started by load_or_create on the same file.
C1_Witness ==
  /\ runs = 2
  /\ \E m \in marked : m[2] = "chunked" /\ persisted0[Str(m[1])]["chunked"]

\* C2: the locked sections of two mark calls never overlap, and when no
\* mark call is in progress every flag whose mark has returned is true in
\* the in-memory map and in the persisted document.
C2_MarkSerialized ==
  /\ Cardinality(InMark) <= 1
  /\ InMark = {} =>
       \A m \in marked :
         /\ cp.chapters[Str(m[1])][m[2]]
         /\ PersistedChapters(disk_cp)[Str(m[1])][m[2]]

\* One thread is inside mark while the other is at its own mark call.
C2_Witness ==
  \E w, v \in Workers : pc[w] = "save" /\ pc[v] = "mark" /\ cur[w] # cur[v]

\* C3: at most one thread is inside synthesize_one_chapter, and a thread
\* inside it holds _synth_lock.
C3_SynthSerialized ==
  /\ Cardinality(InSynth) <= 1
  /\ \A w \in InSynth : synth_lock = w

\* One thread is inside the synthesis stage with a chunk call executing
\* while the other waits for _synth_lock.
C3_Witness ==
  \E w, v \in Workers :
    pc[w] = "synth" /\ inflight[w] # {} /\ pc[v] = "synth_wait"

\* C4: at most one call of engine.synthesize is executing at any moment.
C4_EngineSingleFlight == Cardinality(EngineCalls) <= 1

\* The chapter indices submitted to the pool.
Submitted == {chapters[k].index : k \in 1..Len(chapters)}

StageFnSet == {StageFns[k] : k \in 1..Len(StageFns)}

\* The stage functions before fn in _process_chapter.
Earlier(fn) == {StageFns[k] : k \in {n \in 1..Len(StageFns) : \E m \in (n + 1)..Len(StageFns) : StageFns[m] = fn}}

\* Some stage function raised for chapter u in this run.
HasRaised(u) == \E fn \in StageFnSet : <<u, fn>> \in raised

\* The flag of stage function fn was persisted for chapter u when this run began.
PersistedDone(u, fn) ==
  Str(u) \in DOMAIN persisted0 /\ persisted0[Str(u)][FlagOf(fn)]

\* The result _process_chapter returns for a chapter it carried to the end.
FullResult(u) ==
  [index |-> u, cleaned_path |-> CleanedPath(u), chunk_path |-> ChunkPath(u),
   audio_path |-> AudioPath(u), error |-> None]

\* C5: when run() has returned, a chapter for which a stage function raised
\* has a result carrying the error, and every chapter for which none raised
\* has gone through all three stages (each called in this run, or skipped as
\* done), has cleaned, chunked and synthesized marked and a result without
\* error.
C5_FailureIsolated ==
  phase = "returned" =>
    \A u \in Submitted :
      /\ u \in DOMAIN results
      /\ HasRaised(u) => results[u].error # None
      /\ ~HasRaised(u) =>
           /\ results[u] = FullResult(u)
           /\ \A fn \in StageFnSet :
                /\ IsDone(cp, u, FlagOf(fn))
                /\ <<u, fn>> \in invoked \/ PersistedDone(u, fn)

\* The first run has returned; the clean stage raised for one chapter and
\* all three stage functions were called and returned for another.
C5_Witness ==
  /\ phase = "returned"
  /\ runs = 1
  /\ \E i, j \in Submitted :
       /\ <<i, "clean">> \in raised
       /\ ~HasRaised(j)
       /\ \A fn \in StageFnSet : <<j, fn>> \in invoked

\* C6: when run() has returned, the result set has exactly one entry for
\* every chapter of the input list, stored under the chapter's index, and
\* the entry's index field equals its key.
C6_ResultPerUnit ==
  phase = "returned" =>
    /\ DOMAIN results = Submitted
    /\ \A i \in DOMAIN results : results[i].index = i

\* run() has returned with a failed first chapter and a successful second.
C6_Witness ==
  /\ phase = "returned"
  /\ results[0].error # None
  /\ results[1].error = None

\* C7: a run in which a write of the checkpoint failed inside mark does not
\* return normally.
C7_WriteFailureFatal == ~(phase = "returned" /\ io_failed # {})

\* C8: a chapter's chunk stage is called only when its clean stage has
\* returned or is marked done, its synthesis stage only when its chunk stage
\* has returned or is marked done; no later stage of a chapter has been
\* called while an earlier one is running, and no two threads work on the
\* same chapter.
C8_StageOrder ==
  /\ \A p \in invoked : \A fn \in Earlier(p[2]) :
       /\ IsDone(cp, p[1], FlagOf(fn))
       /\ <<p[1], fn>> \notin raised
  /\ \A w \in Workers :
       cur[w] # NoChapter =>
         /\ \A fn \in StageFnSet : stg[w] \in Earlier(fn) => <<cur[w], fn>> \notin invoked
         /\ \A v \in Workers \ {w} : cur[v] # cur[w]

\* A thread is inside the synthesis stage of a chapter whose clean and chunk
\* stages it called in this run, while the other thread is segmenting
\* another chapter.
C8_Witness ==
  \E w, v \in Workers :
    /\ pc[w] = "synth"
    /\ <<cur[w], "clean">> \in invoked /\ <<cur[w], "chunk">> \in invoked
    /\ pc[v] = "chunk_nlp"

\* Every stage of every chapter was persisted as done when this run began.
AllPersistedDone == \A u \in Submitted : \A fn \in StageFnSet : PersistedDone(u, fn)

\* C9: a stage function is called for a chapter only when is_done is false
\* for the pair at that moment; and a run on a checkpoint with every stage
\* of every chapter marked calls no stage function and returns, for every
\* chapter, the result with the three rebuilt paths and no error.
C9_SkipIfDone ==
  /\ [][\A p \in invoked' \ invoked : ~IsDone(cp, p[1], FlagOf(p[2]))]_vars
  /\ [](AllPersistedDone =>
          /\ invoked = {}
          /\ phase = "returned" => \A u \in Submitted :
               u \in DOMAIN results /\ results[u] = FullResult(u))

\* The second run, on a fully marked checkpoint, has returned.
C9_Witness ==
  /\ runs = 2
  /\ AllPersistedDone
  /\ phase = "returned"
  /\ invoked = {}

Wavs(u) == {j \in ChunksOf(u) : WavPath(u, j) \in files}

\* Thread w has returned from synthesize_one_chapter and is marking.
AfterSynth(w) == stg[w] = "synth" /\ pc[w] \in {"mark", "save"}

\* C11: when a chapter has K >= 1 chunks, none with a wav, and every chunk
\* call fails, synthesize_one_chapter does not return (no thread goes on to
\* stitch and mark with every chunk a failed work item); it raises, after
\* which the chapter has no mp3, is not marked synthesized and has a result
\* carrying the error.
C11_AllFailEscalates ==
  /\ \A w \in Workers :
       AfterSynth(w) =>
         ~(items[w] # {} /\ items[w] = ChunksOf(cur[w]) /\ errs[w] = Cardinality(items[w]))
  /\ \A u \in Submitted :
       (<<u, "synth">> \in raised /\ Wavs(u) = {}) =>
         /\ ChunksOf(u) # {}
         /\ AudioPath(u) \notin files
         /\ ~IsDone(cp, u, "synthesized")
         /\ <<u, "synthesized">> \notin marked
         /\ u \in DOMAIN results
         /\ results[u].error # None
         /\ results[u].audio_path = NoPath

\* A run has returned in which both chunk calls of a two-chunk chapter
\* failed.
C11_Witness ==
  /\ phase = "returned"
  /\ \E u \in Submitted :
       /\ <<u, "synth">> \in raised
       /\ Cardinality(ChunksOf(u)) = 2
       /\ Wavs(u) = {}
       /\ results[u].error # None

\* C12: synthesize_one_chapter raises only when no chunk of the chapter has
\* a wav, one left by an earlier run included.
C12_RaiseOnlyIfAllFailed ==
  \A u \in Submitted : <<u, "synth">> \in raised => Wavs(u) = {}

\* C13: when synthesize_one_chapter was called for a chapter in this run and
\* some but not all of its chunks have a wav afterwards, the call did not
\* raise: the thread goes on with the mp3 stitched, and when the run has
\* returned the chapter has its full result without error and is marked
\* synthesized in memory and in the file.  In a later run no chunk call is
\* made for a chapter persisted as synthesized, whatever wav is missing.
C13_PartialSuccess ==
  /\ \A w \in Workers :
       (AfterSynth(w) /\ Wavs(cur[w]) # {}) => AudioPath(cur[w]) \in files
  /\ \A u \in Submitted :
       /\ (<<u, "synth">> \in invoked /\ u \in DOMAIN results
            /\ Wavs(u) # {} /\ Wavs(u) # ChunksOf(u)) =>
             /\ <<u, "synth">> \notin raised
             /\ results[u] = FullResult(u)
             /\ AudioPath(u) \in files
             /\ IsDone(cp, u, "synthesized")
             /\ IsDone(LoadOrCreate(disk_cp, pdf), u, "synthesized")
       /\ PersistedDone(u, "synth") =>
             /\ <<u, "synth">> \notin invoked
             /\ \A w \in Workers : cur[w] = u => pc[w] # "synth" /\ inflight[w] = {}

\* The second run has returned; it found a chapter persisted as synthesized
\* with one of its two wav files missing.
C13_Witness ==
  /\ runs = 2
  /\ phase = "returned"
  /\ \E u \in Submitted :
       /\ PersistedDone(u, "synth")
       /\ Cardinality(Wavs(u)) = 1
       /\ Cardinality(ChunksOf(u)) = 2
       /\ results[u] = FullResult(u)

\* C14: no chunk that is waiting for or inside engine.synthesize has a wav
\* on storage, and a chunk call returns successfully only for a chunk that
\* had no wav: over all runs a wav is produced at most once.
C14_ExistingSkipped ==
  /\ [](\A w \in InSynth : \A j \in todo[w] \cup inflight[w] : WavPath(cur[w], j) \notin files)
  /\ [][\A w \in Workers : \A j \in ChunkIdx :
          (pc[w] = "synth" /\ j \in inflight[w] /\ j \notin inflight'[w] /\ errs'[w] = errs[w]
           /\ runs' = runs) => WavPath(cur[w], j) \notin files]_vars

\* After a killed run, a thread synthesizes one chunk of a chapter while the
\* other chunk, whose wav the killed run left, is not among its work items.
C14_Witness ==
  /\ killed
  /\ \E w \in InSynth :
       /\ inflight[w] # {}
       /\ Wavs(cur[w]) # {}
       /\ items[w] # ChunksOf(cur[w])

\* ---------------------------------------------------- claims: Reindexer

\* Storage, checkpoint and chapter list generate_and_inject_summary was
\* called on.
Pre == CHOOSE x \in pre : TRUE

\* generate_and_inject_summary has returned and run() has not begun.
Returned == job = "run" /\ position = 0 /\ run_stage = StageFns[1]

\* It returned after inserting a summary chapter.
Inserted == Returned /\ summary_text # ""

\* The names an artifact of the chapter with index i can have, one per kind.
ArtifactSeq(i) ==
  <<ParsedMdPath(i), ParsedPath(i), CleanedPath(i), ChunkPath(i), AudioPath(i)>>
  \o [j \in 1..MaxChunks |-> WavPath(i, j - 1)]

ArtifactsAt(i) == {ArtifactSeq(i)[n] : n \in DOMAIN ArtifactSeq(i)}

\* The checkpoint has an entry for exactly the indices 0..n-1, each with
\* every stage marked.
FullyMarked(c, n) ==
  /\ DOMAIN c.chapters = {Str(i) : i \in 0..(n - 1)}
  /\ \A k \in DOMAIN c.chapters : \A st \in StageSet : c.chapters[k][st]

\* C15: when generate_and_inject_summary was called on chapters 0..N-1 with
\* every stage marked and has inserted a summary, the checkpoint has the keys
\* 0..N, the status formerly at key i is at key i+1, key 0 has parsed and
\* cleaned marked and no other stage, the returned list has N+1 chapters, the
\* first titled "Executive Summary" with index 0 and the former ones
\* following with their index raised by one, total_chapters is N+1 and the
\* checkpoint file holds the in-memory checkpoint.
C15_InsertAtFront ==
  (Inserted /\ FullyMarked(Pre.cp, Len(Pre.chapters))) =>
    LET N == Len(Pre.chapters) IN
      /\ DOMAIN cp.chapters = {Str(i) : i \in 0..N}
      /\ \A i \in 0..(N - 1) : cp.chapters[Str(i + 1)] = Pre.cp.chapters[Str(i)]
      /\ \A st \in StageSet : cp.chapters[Str(0)][st] <=> st \in {"parsed", "cleaned"}
      /\ Len(chapters) = N + 1
      /\ chapters[1].title = SummaryTitle
      /\ chapters[1].index = 0
      /\ \A k \in 1..N : chapters[k + 1] = [Pre.chapters[k] EXCEPT !.index = @ + 1]
      /\ cp.total_chapters = N + 1
      /\ disk_cp = {SaveData(cp)}

\* A summary was inserted in front of the chapters of the source, all of
\* them synthesized by the run before.
C15_Witness ==
  /\ Inserted
  /\ FullyMarked(Pre.cp, Len(Pre.chapters))
  /\ Len(chapters) = NumChapters + 1
  /\ \A i \in Units : AudioPath(i + 1) \in files

\* C16: called on a list whose first chapter is titled "Executive Summary",
\* generate_and_inject_summary returns with the list, the storage, the
\* checkpoint and the checkpoint file unchanged; and the list it returns
\* after an insertion is such a list.
C16_GuardNoOp ==
  /\ [][(job = "summary" /\ chapters # << >> /\ chapters[1].title = SummaryTitle) =>
          (job' = "run" /\ UNCHANGED <<chapters, files, content, cp, disk_cp>>)]_vars
  /\ [](Inserted => chapters[1].title = SummaryTitle)

\* The second run on a source whose first heading is "Executive Summary":
\* the call has returned, nothing was inserted.
C16_Witness ==
  /\ Returned
  /\ runs = 2
  /\ chapters[1].title = SummaryTitle
  /\ injected = 0
  /\ files # {}

\* C17: over the runs of the caller on one output directory a summary is
\* inserted at most once, and whenever generate_and_inject_summary has
\* returned after an insertion in this or an earlier run, every artifact made
\* from a chapter of the source has that chapter's position in the source
\* plus one as its suffix, and the checkpoint has the keys 0..N.
C17_InsertedOnce ==
  /\ injected <= 1
  /\ (Returned /\ injected >= 1) =>
       /\ \A p \in files :
            content[p].sections \in Units => p \in ArtifactsAt(content[p].sections + 1)
       /\ DOMAIN cp.chapters = {Str(i) : i \in 0..NumChapters}

\* C18: before generate_and_inject_summary is called, after it has returned
\* and throughout run(), every chapter's index is its position in the list
\* and a key of the checkpoint, every artifact made from the chapter's
\* content has the index as its suffix, and the checkpoint has no other key.
C18_IndexConsistent ==
  job \in {"summary", "run", "complete"} =>
    /\ \A k \in 1..Len(chapters) :
         /\ chapters[k].index = k - 1
         /\ Str(k - 1) \in DOMAIN cp.chapters
         /\ \A p \in files :
              content[p].sections = chapters[k].sections => p \in ArtifactsAt(k - 1)
    /\ DOMAIN cp.chapters = {Str(k - 1) : k \in 1..Len(chapters)}

\* C19: after an insertion, the index field of every parsed JSON document
\* and the chapter_index field of every chunks document equals the suffix
\* of the document's name.
C19_EmbeddedIndex ==
  Inserted =>
    \A i \in 0..(NumChapters + MaxRuns) :
      /\ ParsedPath(i) \in files => content[ParsedPath(i)].index = i
      /\ ChunkPath(i) \in files => content[ChunkPath(i)].index = i

\* Storage and checkpoint hold nothing for an index beyond the chapters
\* 0..N-1 the call was made on.
PreWithin ==
  /\ Pre.files \subseteq UNION {ArtifactsAt(i) : i \in 0..(Len(Pre.chapters) - 1)}
  /\ DOMAIN Pre.cp.chapters \subseteq {Str(i) : i \in 0..(Len(Pre.chapters) - 1)}

\* C20: in a shift of chapters 0..N-1, with nothing on storage or in the
\* checkpoint beyond them, no rename has a destination that exists and no
\* entry is moved to a key that exists; when the shift is over every
\* artifact formerly at suffix i is at suffix i+1 with its content, every
\* entry formerly at key i is at key i+1, and nothing else is there.
C20_DescendingShift ==
  /\ [][(job = "shift_files" /\ renames # << >> /\ PreWithin
         /\ Exists(Head(renames)[1], files)) => ~Exists(Head(renames)[2], files)]_vars
  /\ [][(job = "shift_entries" /\ shift_keys # << >> /\ PreWithin
         /\ Str(Head(shift_keys)) \in DOMAIN cp.chapters) =>
          Str(Head(shift_keys) + 1) \notin DOMAIN cp.chapters]_vars
  /\ []((job = "inject" /\ PreWithin) =>
          /\ Cardinality(files) = Cardinality(Pre.files)
          /\ \A i \in 0..(old_count - 1) : \A n \in DOMAIN ArtifactSeq(i) :
               ArtifactSeq(i)[n] \in Pre.files =>
                 /\ ArtifactSeq(i + 1)[n] \in files
                 /\ content[ArtifactSeq(i + 1)[n]] = Pre.content[ArtifactSeq(i)[n]]
          /\ DOMAIN cp.chapters = {Str(i + 1) : i \in {k \in 0..(old_count - 1) :
                                                       Str(k) \in DOMAIN Pre.cp.chapters}}
          /\ \A i \in 0..(old_count - 1) :
               Str(i) \in DOMAIN Pre.cp.chapters =>
                 cp.chapters[Str(i + 1)] = Pre.cp.chapters[Str(i)])

\* The shift of the files and entries of all chapters of the source is over,
\* wav files and mp3 of the last chapter included.
C20_Witness ==
  /\ job = "inject"
  /\ PreWithin
  /\ old_count = NumChapters
  /\ AudioPath(NumChapters) \in files
  /\ \E j \in ChunkIdx : WavPath(NumChapters, j) \in files
  /\ CleanedPath(1) \in files

\* ------------------------------------------------- claims: concurrency

\* Threads inside a stage function: clean_one_chapter, chunk_one_chapter.
InClean == {w \in Workers : pc[w] \in {"clean", "clean_token", "clean_write"}}
InChunk == {w \in Workers : pc[w] \in {"chunk", "chunk_nlp"}}

\* Threads inside _chunk_text, and threads updating the token counters.
InChunkText == {w \in Workers : pc[w] = "chunk_nlp"}
InTokenCount == {w \in Workers : pc[w] = "clean_token"}

C22_SynthDoesNotBlock ==
  \A v, w \in Workers :
    (v # w /\ synth_lock = v /\ stg[w] \in {"clean", "chunk"}) =>
      /\ pc[w] \in {"clean", "clean_write"} => ENABLED CleanReturn(w)
      /\ (pc[w] = "clean" /\ token_lock = NoThread) => ENABLED CleanTokenAcquire(w)
      /\ pc[w] = "clean_token" => ENABLED CleanTokenRelease(w)
      /\ (pc[w] = "chunk" /\ nlp_lock = NoThread) => ENABLED ChunkNlpAcquire(w)
      /\ pc[w] = "chunk_nlp" => ENABLED ChunkReturn(w)
      /\ (pc[w] = "mark" /\ cp_lock = NoThread) => ENABLED MarkBegin(w)
      /\ pc[w] = "save" => ENABLED MarkWrite(w)
      /\ pc[w] = "check" => ENABLED (SkipStage(w) \/ EnterStage(w))

\* One thread is inside a call of the engine for a chapter while another
\* is inside clean_one_chapter for a different chapter.
C22_Witness ==
  \E v, w \in Workers :
    /\ synth_lock = v /\ inflight[v] # {}
    /\ pc[w] = "clean"
    /\ cur[v] # cur[w] /\ cur[w] # NoChapter

\* Chapters a pool thread is processing, and chapters whose future is done.
InProcess == {cur[w] : w \in {v \in Workers : cur[v] # NoChapter}}
Collected == DOMAIN results
Queued == {queue[k] : k \in 1..Len(queue)}

\* The whole stage sequence of _process_chapter is in the result.
FullSequence(r) == r.cleaned_path # NoPath /\ r.chunk_path # NoPath /\ r.audio_path # NoPath

\* C23: at most max_workers chapters are in process; every chapter of the
\* list is, once, either waiting in the pool's queue, or in process on one
\* thread, or collected; within a run a collected chapter stays collected;
\* a thread takes a chapter only when it has none, and parts with its
\* chapter only by a result that holds the whole stage sequence or an error.
C23_BoundedPool ==
  /\ [](Cardinality(InProcess) <= MaxConcurrent)
  /\ [](\A k \in 1..Len(chapters) :
          LET i == chapters[k].index IN
            /\ Cardinality({n \in 1..Len(queue) : queue[n] = i})
                 + Cardinality({w \in Workers : cur[w] = i})
                 + (IF i \in Collected THEN 1 ELSE 0) = 1)
  /\ [][runs' = runs => Collected \subseteq DOMAIN results']_vars
  /\ [][\A w \in Workers :
          (runs' = runs /\ cur'[w] # cur[w]) =>
            IF cur[w] = NoChapter
            THEN pc[w] = "idle" /\ cur'[w] = Head(queue) /\ queue' = Tail(queue)
            ELSE /\ cur'[w] = NoChapter
                 /\ cur[w] \in DOMAIN results' \ Collected
                 /\ results'[cur[w]].error # None \/ FullSequence(results'[cur[w]])]_vars

\* Every pool thread is inside a stage function of its chapter while a
\* further chapter waits in the queue.
C23_Witness ==
  /\ Cardinality(InProcess) = MaxConcurrent
  /\ Queued # {}
  /\ \A w \in Workers : w \in InClean \cup InChunk \cup InSynth

\* C24: with a worker count of 1, the work items of a call of
\* synthesize_one_chapter are the chunks without a wav; at most one call of
\* the engine is executing; a call starts only for the lowest work item not
\* yet called, after the calls for all lower work items are over; after a
\* call has returned or failed the call for the next work item can start;
\* and synthesize_one_chapter ends only when every work item was called.
C24_SequentialInOrder ==
  /\ [](synth_workers <= 1 =>
          \A w \in InSynth :
            /\ Cardinality(inflight[w]) <= 1
            /\ (todo[w] # {} /\ inflight[w] = {}) => ENABLED SynthCallStart(w))
  /\ [][synth_workers <= 1 =>
          \A w \in Workers :
            /\ (pc[w] = "synth_wait" /\ pc'[w] = "synth" /\ ChunkPath(cur[w]) \in files) =>
                 items'[w] = {j \in ChunksOf(cur[w]) : WavPath(cur[w], j) \notin files}
            /\ (w \in InSynth /\ pc'[w] = "synth") =>
                 \A j \in inflight'[w] \ inflight[w] :
                   /\ inflight[w] = {}
                   /\ \A k \in items[w] : k < j <=> k \notin todo[w]
            /\ (w \in InSynth /\ pc'[w] # "synth" /\ runs' = runs) =>
                 todo[w] = {} /\ inflight[w] = {}]_vars

\* Sequential synthesis: the call for the first chunk of a chapter failed
\* and the call for its second chunk is executing.
C24_Witness ==
  /\ synth_workers = 1
  /\ \E w \in InSynth : errs[w] = 1 /\ inflight[w] = {1} /\ items[w] = {0, 1}

\* C25: with a worker count W above 1, the work items of a call of
\* synthesize_one_chapter are the chunks without a wav; a work item is
\* either not yet submitted, or inside the engine, or over, and goes through
\* these in that order, once; at most W are inside the engine; two work
\* items have different wav paths; and whatever the order in which the calls
\* end, the wav files written are as many as the calls that ended without an
\* error, one per such work item.
C25_ParallelDispatch ==
  /\ [](synth_workers > 1 =>
          \A w \in InSynth :
            /\ Cardinality(inflight[w]) <= synth_workers
            /\ todo[w] \cup inflight[w] \subseteq items[w]
            /\ todo[w] \cap inflight[w] = {}
            /\ \A j, k \in items[w] : j # k => WavPath(cur[w], j) # WavPath(cur[w], k)
            /\ \A j \in todo[w] \cup inflight[w] : WavPath(cur[w], j) \notin files
            /\ Cardinality({j \in items[w] : WavPath(cur[w], j) \in files}) + errs[w]
                 = Cardinality(items[w] \ (todo[w] \cup inflight[w])))
  /\ [][synth_workers > 1 =>
          \A w \in Workers :
            /\ (pc[w] = "synth_wait" /\ pc'[w] = "synth" /\ ChunkPath(cur[w]) \in files) =>
                 /\ items'[w] = {j \in ChunksOf(cur[w]) : WavPath(cur[w], j) \notin files}
                 /\ todo'[w] = items'[w] /\ inflight'[w] = {}
            /\ (w \in InSynth /\ pc'[w] = "synth") =>
                 /\ items'[w] = items[w]
                 /\ todo'[w] \subseteq todo[w]
                 /\ inflight'[w] \ inflight[w] = todo[w] \ todo'[w]
            /\ (w \in InSynth /\ pc'[w] # "synth" /\ runs' = runs) =>
                 todo[w] = {} /\ inflight[w] = {}]_vars

\* The chunk pool is full, the call for the first chunk of the chapter
\* still executing and the call for the second, submitted after it, having
\* ended with its wav written.
C25_Witness ==
  /\ synth_workers > 1
  /\ \E w \in InSynth :
       /\ Cardinality(inflight[w]) = synth_workers
       /\ 0 \in inflight[w]
       /\ WavPath(cur[w], 1) \in files
       /\ 1 \in items[w]

\* ------------------------------------------------- claims: Checkpoint

\* Stage names: the four fields, a name that no attribute has, and the
\* names of attributes of the class.
StageNames == StageSet \cup {"published"} \cup ClassAttrs

\* Chapter indices with and without a record in the map.
AnyIndex == 0..(NumChapters + MaxRuns)

\* C26: on every checkpoint the engine produces, for every index and every
\* stage name, is_done returns a bool, and returns False when the index has
\* no record or the name is not one of the four stages.
C26_IsDoneTotal ==
  \A i \in AnyIndex : \A s \in StageNames :
    /\ IsDoneValue(cp, i, s)[1] = "bool"
    /\ (Str(i) \notin DOMAIN cp.chapters \/ s \notin StageSet) => ~Truthy(IsDoneValue(cp, i, s))

\* The flag st of the record at key k of a chapters map, False without a
\* record (a new ChapterStatus has every flag False).
FlagAt(chs, k, st) == IF k \in DOMAIN chs THEN chs[k][st] ELSE FALSE

\* c2 is c1 with flag s of index i set, a record for i added when c1 had
\* none, and nothing else changed.
OnlyFlagSet(c1, c2, i, s) ==
  /\ DOMAIN c2.chapters = DOMAIN c1.chapters \cup {Str(i)}
  /\ c2.chapters[Str(i)][s]
  /\ \A t \in StageSet \ {s} : c2.chapters[Str(i)][t] = FlagAt(c1.chapters, Str(i), t)
  /\ \A k \in DOMAIN c1.chapters \ {Str(i)} : c2.chapters[k] = c1.chapters[k]
  /\ [c2 EXCEPT !.chapters = << >>] = [c1 EXCEPT !.chapters = << >>]

\* C27: on every checkpoint the engine produces, for every index (with or
\* without a record) and every stage, mark sets that flag of that index and
\* changes nothing else, and a second mark(i, s) leaves the checkpoint and
\* the document save writes as the first left them; and every mark call of
\* a pool thread changes the shared checkpoint in this way.
C27_MarkIdempotentLocal ==
  /\ [](\A i \in AnyIndex : \A s \in StageSet :
          LET m1 == MarkInMemory(cp, i, s)
              m2 == MarkInMemory(m1, i, s)
          IN /\ OnlyFlagSet(cp, m1, i, s)
             /\ m2 = m1
             /\ SaveData(m2) = SaveData(m1))
  /\ [][\A w \in Workers :
          (pc[w] = "mark" /\ pc'[w] = "save") =>
            /\ OnlyFlagSet(cp, cp', cur[w], FlagOf(stg[w]))
            /\ data'[w] = {SaveData(cp')}]_vars

\* A pool thread has made its mark call on a checkpoint in which another
\* chapter has flags set by earlier mark calls, and an index has no record.
C27_Witness ==
  /\ \E w \in InMark : \E m \in marked : m[1] # cur[w] /\ m[2] = "chunked"
  /\ Str(NumChapters) \notin DOMAIN cp.chapters

\* Every flag that is true in the chapters map a is true at the same key
\* of the chapters map b.
FlagsKept(a, b, keys) ==
  \A k \in keys \cap DOMAIN a : \A st \in StageSet :
    a[k][st] => (k \in DOMAIN b /\ b[k][st])

\* A step of _shift_checkpoint_entries.
ShiftStep == job = "shift_entries" /\ shift_keys # << >> /\ shift_keys' = Tail(shift_keys)

\* C28: in every step of the caller (load_or_create at the start of a run,
\* parse_pdf, the stage marks of run(), the marks of the summary chapter) a
\* flag that is true stays true at its key; a step of the shift that moves
\* index i takes the flags at key i to key i+1 and resets no flag that is
\* true at any other key, key i+1 included.
C28_FlagsMonotonic ==
  [][IF ShiftStep
     THEN LET i == Head(shift_keys) IN
            /\ \A st \in StageSet :
                 FlagAt(cp.chapters, Str(i), st) => FlagAt(cp'.chapters, Str(i + 1), st)
            /\ FlagsKept(cp.chapters, cp'.chapters, DOMAIN cp.chapters \ {Str(i)})
     ELSE FlagsKept(cp.chapters, cp'.chapters, DOMAIN cp.chapters)]_vars

BetweenOperations == job \in {"summary", "shift_files", "run", "complete", "error"}

\* C30: whenever parse_pdf, generate_and_inject_summary or mark has returned
\* and no later mutating operation has begun, the checkpoint file holds one
\* document whose pdf_path, pdf_hash, parser_used, total_chapters and whole
\* chapters map are those of the in-memory checkpoint.
C30_RewrittenWholesale ==
  BetweenOperations =>
    /\ Cardinality(disk_cp) = 1
    /\ \A doc \in disk_cp :
         /\ doc.pdf_path = cp.pdf_path
         /\ doc.pdf_hash = cp.pdf_hash
         /\ doc.parser_used = cp.parser_used
         /\ doc.total_chapters = cp.total_chapters
         /\ DOMAIN doc.chapters = DOMAIN cp.chapters
         /\ \A k \in DOMAIN cp.chapters : \A st \in StageSet :
              doc.chapters[k][st] = cp.chapters[k][st]

\* parse_pdf has set the parser and the total, the summary was inserted in
\* front (entries shifted, total raised by one) and the pipeline has marked
\* a stage of a shifted chapter since.
C30_Witness ==
  /\ job = "run"
  /\ summary_text # ""
  /\ pre # {}
  /\ cp.parser_used = "pymupdf"
  /\ cp.total_chapters = Len(Pre.chapters) + 1
  /\ \E i \in 1..Len(Pre.chapters) :
       /\ Str(i) \in DOMAIN cp.chapters
       /\ cp.chapters[Str(i)]["chunked"]
       /\ ~Pre.cp.chapters[Str(i - 1)]["chunked"]
  /\ disk_cp = {SaveData(cp)}

\* ------------------------------------------- claims: failure and recovery

\* _shift_chapter_files without a failure: storage after every rename of
\* the plan.
RECURSIVE ShiftFiles(_, _, _)
ShiftFiles(plan, fs, c) ==
  IF plan = << >> THEN [files |-> fs, content |-> c]
  ELSE LET src == Head(plan)[1]
           dst == Head(plan)[2]
           fs2 == {Moved(src, dst, p) : p \in fs}
           c2 == [q \in fs2 |->
                    LET from == {p \in fs : p # q /\ Moved(src, dst, p) = q}
                    IN IF from # {} THEN c[CHOOSE p \in from : TRUE] ELSE c[q]]
       IN ShiftFiles(Tail(plan), fs2, c2)

\* _shift_checkpoint_entries: the checkpoint after every index of the loop.
RECURSIVE ShiftEntries(_, _)
ShiftEntries(keys, c) ==
  IF keys = << >> THEN c ELSE ShiftEntries(Tail(keys), ShiftCheckpointEntry(c, Head(keys)))

\* generate_and_inject_summary, lines 55-89, as one uninterrupted call on
\* the state x with the summary text of run r: what it leaves and returns.
Uninterrupted(x, r) ==
  LET n == Len(x.chapters)
      moved == ShiftFiles(ShiftPlan(n), x.files, x.content)
      c1 == UpdateParsedJsonIndices(moved.content, n)
      summary_ch == [index |-> 0, title |-> SummaryTitle, sections |-> SummaryText(r)]
      fs == moved.files \cup {ParsedMdPath(0), ParsedPath(0), CleanedPath(0)}
  IN Snapshot(fs,
              [p \in fs |->
                 IF p = ParsedPath(0) THEN JsonDoc(summary_ch)
                 ELSE IF p \in {ParsedMdPath(0), CleanedPath(0)} THEN MdDoc(summary_ch)
                 ELSE c1[p]],
              [MarkInMemory(MarkInMemory(ShiftEntries(ShiftOrder(n), x.cp), 0, "parsed"), 0, "cleaned")
                 EXCEPT !.total_chapters = n + 1],
              <<summary_ch>> \o [k \in 1..n |-> [x.chapters[k] EXCEPT !.index = @ + 1]])

\* The last failure of generate_and_inject_summary before a rename.
FailedPre == CHOOSE x \in failed_pre : TRUE

\* C31: when generate_and_inject_summary has raised before its first rename
\* the job is in error and storage, checkpoint, checkpoint file and chapter
\* list are those the call was made on; the next run of the job calls
\* generate_and_inject_summary on that same state, and when that call has
\* returned after inserting, the state is the one a single uninterrupted
\* call on the first state leaves.
C31_RetryBeforeFirstRename ==
  failed_pre # {} =>
    /\ (job = "error" /\ runs = FailedPre.run) =>
         /\ Snapshot(files, content, cp, chapters) = FailedPre.at
         /\ disk_cp = {SaveData(FailedPre.at.cp)}
    /\ (job \in {"summary", "shift_files", "shift_entries", "inject"} /\ runs = FailedPre.run + 1) =>
         pre = {FailedPre.at}
    /\ (Returned /\ summary_text # "" /\ runs = FailedPre.run + 1) =>
         /\ Snapshot(files, content, cp, chapters) = Uninterrupted(FailedPre.at, runs)
         /\ disk_cp = {SaveData(cp)}

\* The first run raised before a rename; the second run has inserted the
\* summary and returned the list of N+1 chapters.
C31_Witness ==
  /\ failed_pre # {}
  /\ runs = FailedPre.run + 1
  /\ Returned
  /\ summary_text # ""
  /\ injected = 1
  /\ Len(chapters) = NumChapters + 1
  /\ CleanedPath(0) \in files
  /\ ParsedPath(NumChapters) \in files

\* The locks thread w holds.
Held(w) ==
  {l \in {"cp", "synth", "nlp", "token"} :
     (l = "cp" /\ cp_lock = w) \/ (l = "synth" /\ synth_lock = w)
     \/ (l = "nlp" /\ nlp_lock = w) \/ (l = "token" /\ token_lock = w)}

\* The thread is about to take a lock, or between stages, or has no chapter.
AtAcquire(w) == pc[w] \in {"idle", "check", "clean", "chunk", "synth_wait", "mark"}

\* C32: a thread holds at most one lock and none where it takes one, none
\* between stages and none after its chapter ended, by return or raise;
\* under the scheduling of SpecLive a running run() returns with a result
\* for every chapter submitted, and a thread that waits for the synthesis
\* lock gets it.
C32_RunTerminates ==
  /\ [](\A w \in Workers : Cardinality(Held(w)) <= 1 /\ (AtAcquire(w) => Held(w) = {}))
  /\ (phase = "running") ~> (phase = "returned" /\ Submitted \subseteq DOMAIN results)
  /\ \A w \in Workers : (pc[w] = "synth_wait") ~> (pc[w] = "synth")

\* A thread waits for the synthesis lock another thread holds, after the
\* synthesis of a chapter has raised in this run.
C32_Witness ==
  /\ \E w, v \in Workers : w # v /\ pc[w] = "synth_wait" /\ synth_lock = v
  /\ \E i \in PoolUnits : <<i, "synth">> \in raised

\* The stage functions that come after fn in _process_chapter.
Later(fn) == {g \in StageFnSet : fn \in Earlier(g)}

\* The stage functions of chapter u whose flag was not persisted when this
\* run began.
NotPersisted(u) == {fn \in StageFnSet : ~PersistedDone(u, fn)}

\* C33: when a stage function has raised for a chapter in this run, the
\* flag of that stage is false in the checkpoint and in its file, no later
\* stage of the chapter has been called or is marked, and the flags of the
\* earlier stages are true; the next run begins with exactly that persisted;
\* and in every run the stages called for a chapter are not persisted as
\* done, follow one another without a gap, and begin, once the chapter has
\* its result, with the first stage not persisted as done.
C33_RestartAtFailedStage ==
  /\ [](\A r \in raised :
          /\ ~IsDone(cp, r[1], FlagOf(r[2]))
          /\ ~IsDone(LoadOrCreate(disk_cp, pdf), r[1], FlagOf(r[2]))
          /\ \A g \in Later(r[2]) : <<r[1], g>> \notin invoked /\ ~IsDone(cp, r[1], FlagOf(g))
          /\ \A g \in Earlier(r[2]) :
               IsDone(cp, r[1], FlagOf(g)) /\ IsDone(LoadOrCreate(disk_cp, pdf), r[1], FlagOf(g)))
  /\ [][runs' = runs + 1 =>
          \A r \in raised :
            /\ Str(r[1]) \in DOMAIN persisted0'
            /\ ~persisted0'[Str(r[1])][FlagOf(r[2])]
            /\ \A g \in Earlier(r[2]) : persisted0'[Str(r[1])][FlagOf(g)]]_vars
  /\ [](\A u \in Submitted :
          /\ \A fn \in StageFnSet :
               <<u, fn>> \in invoked =>
                 /\ ~PersistedDone(u, fn)
                 /\ \A g \in Earlier(fn) : PersistedDone(u, g) \/ <<u, g>> \in invoked
          /\ (u \in DOMAIN results /\ NotPersisted(u) # {}) =>
               \E fn \in NotPersisted(u) :
                 /\ Earlier(fn) \cap NotPersisted(u) = {}
                 /\ <<u, fn>> \in invoked)

\* In the first run chunk_one_chapter raised for a chapter; the second run
\* has returned: it called the segmenter for that chapter and not the
\* cleaner.
C33_Witness ==
  /\ runs = 2
  /\ phase = "returned"
  /\ ~killed
  /\ \E i \in Submitted :
       /\ PersistedDone(i, "clean")
       /\ ~PersistedDone(i, "chunk")
       /\ <<i, "chunk">> \in invoked
       /\ <<i, "clean">> \notin invoked

\* ------------------------------------------ claims: checkpoint invariants

\* The flags of the chapters map chs that have no artifact on storage fs:
\* cleaned without the cleaned text, chunked without the chunks document.
Ahead(chs, fs) ==
  {<<i, st>> \in AnyIndex \X {"cleaned", "chunked"} :
     /\ Str(i) \in DOMAIN chs
     /\ chs[Str(i)][st]
     /\ (IF st = "cleaned" THEN CleanedPath(i) ELSE ChunkPath(i)) \notin fs}

\* C34: outside generate_and_inject_summary, in every state reached by
\* runs of the pipeline, interruptions and completed insertions, a chapter
\* marked cleaned in the checkpoint or in its file has its cleaned text on
\* storage and a chapter marked chunked has its chunks document; so the
\* path rebuilt for a stage that is skipped for the chapter at hand exists.
C34_NeverAhead ==
  job \in {"parse", "summary", "run", "complete"} =>
    /\ Ahead(cp.chapters, files) = {}
    /\ Ahead(PersistedChapters(disk_cp), files) = {}
    /\ (job = "run" /\ position < Len(chapters)) =>
         /\ IsDone(cp, RunIdx, "cleaned") => CleanedPath(RunIdx) \in files
         /\ IsDone(cp, RunIdx, "chunked") => ChunkPath(RunIdx) \in files

\* A run without summary cleaned the first chapter and was interrupted; the
\* next run inserted the summary, and the pipeline, at the chunk stage of
\* the shifted chapter, has skipped its clean stage.
C34_Witness ==
  /\ runs = 2
  /\ injected = 1
  /\ job = "run"
  /\ position < Len(chapters)
  /\ RunIdx = 1
  /\ run_stage = "chunk"
  /\ pre # {}
  /\ Str(0) \in DOMAIN Pre.cp.chapters
  /\ Pre.cp.chapters[Str(0)]["cleaned"]
  /\ ~Pre.cp.chapters[Str(0)]["chunked"]
  /\ IsDone(cp, 1, "cleaned")
  /\ ~IsDone(cp, 1, "chunked")
  /\ CleanedPath(1) \in files

\* Every entry of the chapters map chs has its flags set from the first
\* stage of STAGES up to some stage, and no flag after a flag that is false.
PrefixClosed(chs) ==
  \A k \in DOMAIN chs : \A n \in 2..Len(STAGES) : chs[k][STAGES[n]] => chs[k][STAGES[n - 1]]

\* C35: in every state of the web job, with interrupted runs and repeated
\* insertions, every entry of the checkpoint and of its file has
\* synthesized only with chunked, chunked only with cleaned and cleaned
\* only with parsed.
C35_PrefixClosed ==
  /\ PrefixClosed(cp.chapters)
  /\ PrefixClosed(PersistedChapters(disk_cp))

\* After an insertion the summary chapter is parsed and cleaned and no
\* more, a shifted chapter has all four flags and another is parsed only.
C35_Witness ==
  /\ injected = 1
  /\ job = "run"
  /\ Str(0) \in DOMAIN cp.chapters
  /\ cp.chapters[Str(0)]["cleaned"] /\ ~cp.chapters[Str(0)]["chunked"]
  /\ \E k \in DOMAIN cp.chapters : cp.chapters[k]["synthesized"]
  /\ \E k \in DOMAIN cp.chapters : cp.chapters[k]["parsed"] /\ ~cp.chapters[k]["cleaned"]
  /\ disk_cp = {SaveData(cp)}

\* ------------------------------------------------- claims: run sequences

\* pipeline.run() is under way on the list generate_and_inject_summary
\* returned after inserting a summary in front of chapters that had every
\* stage marked.
AfterFullInsert ==
  /\ job = "run"
  /\ summary_text # ""
  /\ pre # {}
  /\ Pre.chapters # << >>
  /\ FullyMarked(Pre.cp, Len(Pre.chapters))

\* A stage function is called for the chapter at hand.
StageCall == RunClean \/ RunChunk \/ RunRaise \/ \E ok \in SUBSET ChunkIdx : RunSynth(ok)

\* C36: in the run over the N+1 chapters returned by an insertion in front
\* of N chapters with every stage marked, no stage function can be called
\* for the chapters 1..N; for chapter 0 the clean stage is skipped, the
\* chunk stage is called and reads the summary's cleaned text at
\* cleaned/chapter_000.txt, and the synthesis stage, when reached, is called
\* on the chunks document made from that text; the audio of chapter 0 is
\* made from it.
C36_RunAfterInsert ==
  AfterFullInsert =>
    /\ Len(chapters) = Len(Pre.chapters) + 1
    /\ position < Len(chapters) =>
         /\ RunIdx = position
         /\ RunIdx >= 1 => (~ENABLED StageCall /\ ENABLED RunSkip)
         /\ (RunIdx = 0 /\ run_stage = "clean") => (~ENABLED StageCall /\ ENABLED RunSkip)
         /\ (RunIdx = 0 /\ run_stage = "chunk") =>
              /\ ENABLED RunChunk /\ ~ENABLED RunSkip
              /\ content[CleanedPath(0)] = MdDoc(chapters[1])
         /\ (RunIdx = 0 /\ run_stage = "synth") =>
              /\ ENABLED StageCall /\ ~ENABLED RunSkip /\ ~ENABLED RunRaise
              /\ content[ChunkPath(0)] = Doc(chapters[1].sections, 0, SummaryTitle)
    /\ AudioPath(0) \in files => content[AudioPath(0)].sections = chapters[1].sections
    /\ \A i \in 1..Len(Pre.chapters) : \A st \in StageSet : IsDone(cp, i, st)

\* That run has gone through the list and the summary chapter has its audio.
C36_Witness ==
  /\ AfterFullInsert
  /\ position = Len(chapters)
  /\ Len(chapters) = NumChapters + 1
  /\ IsDone(cp, 0, "synthesized")
  /\ AudioPath(0) \in files

\* ------------------------------------------- claims: the synthesis stage

\* C37: in a run that load_or_create began with a fresh checkpoint because
\* the stored fingerprint was not that of the source, every stage function
\* is called for every chapter that gets a result without error, the work
\* items of synthesize_one_chapter are all the chunks of the chapter (an
\* engine call is made for each), and the chapter audio that is there once
\* the chapter is marked synthesized is made from the chapter of this
\* source.
C37_NothingReused ==
  mismatch =>
    /\ \A u \in Submitted :
         (u \in DOMAIN results /\ results[u].error = None) =>
           \A fn \in StageFnSet : <<u, fn>> \in invoked
    /\ \A w \in Workers :
         (pc[w] = "synth" /\ ChunkPath(cur[w]) \in files) => items[w] = ChunksOf(cur[w])
    /\ \A u \in Submitted :
         (IsDone(cp, u, "synthesized") /\ AudioPath(u) \in files) =>
           content[AudioPath(u)].sections = ChapterOf(u).sections

\* The chunks document of chapter u is on storage and holds no chunk.
NoChunks(u) == ChunkPath(u) \in files /\ ChunksOf(u) = {}

\* C38: for a chapter whose chunks document holds no chunk,
\* synthesize_one_chapter has no work item, enters no engine call and does
\* not raise; the step in which it returns writes no file and leads to the
\* mark of the synthesis stage; no wav and no mp3 of the chapter exists; and
\* once the chapter has its result after a call of the synthesis stage, the
\* result has no error and the chapter is marked synthesized in the
\* checkpoint and in its file.
C38_EmptyChapterSucceeds ==
  /\ [](\A w \in Workers :
          (pc[w] = "synth" /\ NoChunks(cur[w])) =>
            /\ items[w] = {} /\ todo[w] = {} /\ inflight[w] = {} /\ errs[w] = 0
            /\ ~SynthFails(w)
            /\ ENABLED SynthReturn(w))
  /\ [][\A w \in Workers :
          (pc[w] = "synth" /\ NoChunks(cur[w]) /\ pc'[w] # "synth") =>
            /\ pc'[w] = "mark" /\ stg'[w] = "synth"
            /\ files' = files /\ content' = content
            /\ raised' = raised]_vars
  /\ [](\A u \in Submitted :
          NoChunks(u) =>
            /\ AudioPath(u) \notin files
            /\ \A j \in AnyChunkIdx : WavPath(u, j) \notin files
            /\ <<u, "synth">> \notin raised
            /\ (u \in DOMAIN results /\ <<u, "synth">> \in invoked) =>
                 /\ results[u].error = None
                 /\ IsDone(cp, u, "synthesized")
                 /\ IsDone(LoadOrCreate(disk_cp, pdf), u, "synthesized"))

\* A chapter without chunks went through the synthesis stage in this run:
\* it has its result, without error, is marked synthesized and has no mp3.
C38_Witness ==
  \E u \in Submitted :
    /\ NoChunks(u)
    /\ <<u, "synth">> \in invoked
    /\ u \in DOMAIN results
    /\ results[u].error = None
    /\ IsDone(cp, u, "synthesized")
    /\ AudioPath(u) \notin files

\* C39: when synthesize_all leaves a chapter that was not marked
\* synthesized, the files on storage, whether stitch_chapter was called and
\* the synthesized flag are those synthesize_one_chapter under
\* _process_chapter gives on the storage the chapter was entered with, the
\* same engine calls returning and raising.
C39_SamePolicy ==
  [][\A i \in Units :
       (job = "synthesize_all" /\ position = i /\ position' = i + 1
        /\ ~IsDone(cp, i, "synthesized")) =>
         LET work == IF pc[Caller] = "synth" THEN items[Caller] ELSE {}
             ok == {j \in work : WavPath(i, j) \in files}
             before == files \ {WavPath(i, j) : j \in work}
             one == OneChapter(i, before, content, ok)
         IN /\ files' = one.files
            /\ (pc[Caller] = "synth") = one.stitched
            /\ IsDone(cp', i, "synthesized") = one.synthesized]_vars

====
